---- MODULE Spec2Model ----
(***************************************************************************)
(* A model of theleague's NFL box-score collector                          *)
(* (src/src/theleague/handlers/nfl_handler.py, NFLDailyStatsCollector):    *)
(* identity extraction, the per-category table builders, the outer-merge / *)
(* duplicate-resolution / validation pipeline of _process_and_upload_data, *)
(* and the date loop of run().                                             *)
(*                                                                         *)
(* A DataFrame is [columns |-> set of names, rows |-> sequence of rows].   *)
(* A row is a record over the columns in which it holds a value: a column  *)
(* of the frame missing from a row's DOMAIN is a null (NaN / None) there.  *)
(* A raw HTML cell read with extract_links="body" is the pair              *)
(* (text, href): [text |-> t, href |-> h], or [text |-> t] when the cell   *)
(* holds no link (href None); [value |-> v] is a plain scalar cell.        *)
(* An href is the sequence of its tokens, "/" and "." being tokens of      *)
(* their own, so that split("/") and split(".") are computed, not assumed. *)
(***************************************************************************)
EXTENDS Integers, Sequences, FiniteSets, TLC

VARIABLES
    self,        \* the collector's attributes (str_date, url, week, home_team, ...)
    page,        \* the page content the builders read
    built,       \* the outcome of the last table-builder call
    accs,        \* the ten accumulators of run() / arguments of _process_and_upload_data
    call,        \* the arguments of the last _process_and_upload_data call
    outcome,     \* what the last _process_and_upload_data call did
    pc,          \* where the program stands
    dates,       \* self.dates, the days of the run
    di,          \* how many of them the loop of run() has taken
    date,        \* the loop variable of run(): the last day taken
    games,       \* the games of that day still to scrape
    cloud        \* the season files in the storage bucket

vars == <<self, page, built, accs, call, outcome, pc, dates, di, date, games, cloud>>

----------------------------------------------------------------------------
(* Generic helpers *)

RECURSIVE SeqToSet(_)
SeqToSet(s) == IF s = <<>> THEN {} ELSE {Head(s)} \cup SeqToSet(Tail(s))

RECURSIVE FlattenSeq(_)
FlattenSeq(ss) == IF ss = <<>> THEN <<>> ELSE Head(ss) \o FlattenSeq(Tail(ss))

\* the rows of s at the indices in I, in order (boolean-mask selection df[mask])
SelectIdx(s, I) ==
    LET F[i \in 0..Len(s)] ==
            IF i = 0 THEN <<>>
            ELSE IF i \in I THEN Append(F[i - 1], s[i]) ELSE F[i - 1]
    IN  F[Len(s)]

Restrict(r, S) == [c \in (DOMAIN r) \cap S |-> r[c]]

\* a column of a row: present (non-null) or not
NotNull(r, c) == c \in DOMAIN r
IsNull(r, c) == c \notin DOMAIN r

\* row r with column c set to v (DataFrame column assignment of a scalar)
With(r, c, v) == [x \in (DOMAIN r) \cup {c} |-> IF x = c THEN v ELSE r[x]]

\* a local name for an intermediate value: Bind([x \in {e} |-> body]) is body
\* with x standing for the value of e (a Python assignment x = e before body)
Bind(f) == f[CHOOSE x \in DOMAIN f : TRUE]

DataFrame(cols, rows) == [columns |-> cols, rows |-> rows]
EmptyDataFrame == DataFrame({}, <<>>)

\* DataFrame.empty: an axis of length 0
empty(df) == df.columns = {} \/ df.rows = <<>>

\* df[col] = scalar
Assign(df, c, v) ==
    DataFrame(df.columns \cup {c}, [i \in 1..Len(df.rows) |-> With(df.rows[i], c, v)])

\* df.drop(columns=cols, errors="ignore")
DropColumns(df, cols) ==
    DataFrame(df.columns \ cols,
              [i \in 1..Len(df.rows) |-> Restrict(df.rows[i], (DOMAIN df.rows[i]) \ cols)])

\* a mapping read in both directions: a key becomes its value, a value its key
SwapHeader(dict, c) ==
    IF c \in DOMAIN dict THEN dict[c]
    ELSE IF \E k \in DOMAIN dict : dict[k] = c THEN CHOOSE k \in DOMAIN dict : dict[k] = c
    ELSE c

\* df.rename(columns=dict): a header absent from the mapping is kept
RenameHeader(dict, c) == IF c \in DOMAIN dict THEN dict[c] ELSE c

RenameRow(dict, r) ==
    LET new == {RenameHeader(dict, c) : c \in DOMAIN r}
    IN  [n \in new |-> r[CHOOSE c \in DOMAIN r : RenameHeader(dict, c) = n]]

Rename(df, dict) ==
    DataFrame({RenameHeader(dict, c) : c \in df.columns},
              [i \in 1..Len(df.rows) |-> RenameRow(dict, df.rows[i])])

\* pd.concat(dfs) of a non-empty list: union of the columns, rows in list order
concat(dfs) ==
    DataFrame(UNION {dfs[i].columns : i \in 1..Len(dfs)},
              FlattenSeq([i \in 1..Len(dfs) |-> dfs[i].rows]))

----------------------------------------------------------------------------
(* constants/nfl_constants.py *)

OFFENSIVE_COLUMNS_LIST ==
    << "player", "Tm", "Cmp", "Att", "Yds", "TD",
       "Int", "Sk", "Yds.1", "Lng", "Rate", "Att.1",
       "Yds.2", "TD.1", "Lng.1", "Tgt", "Rec", "Yds.3",
       "TD.2", "Lng.2", "Fmb", "FL", "player_id" >>

OFFENSIVE_RENAMING_DICT ==
    ("player" :> "player")
    @@ ("Tm" :> "team")
    @@ ("Cmp" :> "passing_completions")
    @@ ("Att" :> "passing_attempts")
    @@ ("Yds" :> "passing_yards")
    @@ ("TD" :> "passing_touchdowns")
    @@ ("Int" :> "passing_interceptions")
    @@ ("Sk" :> "passing_sacks")
    @@ ("Yds.1" :> "passing_sacked_yards")
    @@ ("Lng" :> "passing_longest_pass")
    @@ ("Rate" :> "passing_passer_rating")
    @@ ("Att.1" :> "rushing_attempts")
    @@ ("Yds.2" :> "rushing_yards")
    @@ ("TD.1" :> "rushing_touchdowns")
    @@ ("Lng.1" :> "rushing_longest_rush")
    @@ ("Tgt" :> "receiving_targets")
    @@ ("Rec" :> "receiving_receptions")
    @@ ("Yds.3" :> "receiving_yards")
    @@ ("TD.2" :> "receiving_touchdowns")
    @@ ("Lng.2" :> "receiving_longest_reception")
    @@ ("Fmb" :> "offensive_fumbles")
    @@ ("FL" :> "offensive_fumbles_lost")
    @@ ("player_id" :> "player_id")

FG_RENAMING_DICT ==
    ("Tm" :> "team")
    @@ ("kicker" :> "player")

PLAYER_DEFENSE_RENAMING_DICT ==
    ("Player" :> "player")
    @@ ("Tm" :> "team")
    @@ ("Int" :> "defensive_interceptions")
    @@ ("Yds" :> "defensive_interception_return_yards")
    @@ ("TD" :> "defensive_interception_touchdowns")
    @@ ("Lng" :> "defensive_longest_interception_return")
    @@ ("PD" :> "defensive_passes_defended")
    @@ ("Sk" :> "defensive_sacks")
    @@ ("Comb" :> "defensive_total_tackles")
    @@ ("TFL" :> "defensive_tackles_for_loss")
    @@ ("QBHits" :> "defensive_qb_hits")
    @@ ("FR" :> "defensive_fumble_recoveries")
    @@ ("Yds.1" :> "defensive_fumble_return_yards")
    @@ ("TD.1" :> "defensive_fumble_touchdowns")
    @@ ("FF" :> "defensive_forced_fumbles")
    @@ ("Solo" :> "defensive_solo_tackles")
    @@ ("Ast" :> "defensive_assisted_tackles")

PUNT_KICK_RETURNS_RENAMING_DICT ==
    ("Player" :> "player")
    @@ ("Tm" :> "team")
    @@ ("Rt" :> "kick_return_returns")
    @@ ("Ret" :> "punt_return_returns")
    @@ ("Y/Rt" :> "kick_return_yards_per_return")
    @@ ("Yds" :> "kick_return_yards")
    @@ ("Y/R" :> "punt_return_yards_per_return")
    @@ ("Yds.1" :> "punt_return_yards")
    @@ ("TD" :> "kick_return_touchdowns")
    @@ ("Lng" :> "kick_return_longest_return")
    @@ ("Lng.1" :> "punt_return_longest_return")
    @@ ("TD.1" :> "punt_return_touchdowns")

PUNT_KICK_RENAMING_DICT ==
    ("Player" :> "player")
    @@ ("Tm" :> "team")
    @@ ("XPM" :> "kicking_extra_points_made")
    @@ ("XPA" :> "kicking_extra_points_attempted")
    @@ ("FGM" :> "kicking_field_goals_made")
    @@ ("FGA" :> "kicking_field_goals_attempted")
    @@ ("Pnt" :> "punting_num_punts")
    @@ ("Yds" :> "punting_punt_yards")
    @@ ("Y/P" :> "punting_yards_per_punt")
    @@ ("Lng" :> "punting_longest_punt")

PASSING_ADVANCED_RENAMING_DICT ==
    ("Player" :> "player")
    @@ ("Tm" :> "team")
    @@ ("1D" :> "passing_first_downs_thrown")
    @@ ("1D%" :> "passing_first_down_pct")
    @@ ("IAY" :> "passing_intended_air_yards")
    @@ ("IAY/PA" :> "passing_intended_air_yards_per_att")
    @@ ("CAY" :> "passing_completed_air_yards")
    @@ ("CAY/Cmp" :> "passing_completed_air_yards_per_cmp")
    @@ ("CAY/PA" :> "passing_completed_air_yards_per_att")
    @@ ("YAC" :> "passing_yards_after_catch")
    @@ ("YAC/Cmp" :> "passing_yards_after_catch_per_cmp")
    @@ ("Drops" :> "passing_drops")
    @@ ("Drop%" :> "passing_drop_pct")
    @@ ("BadTh" :> "passing_bad_throws")
    @@ ("Bad%" :> "passing_bad_throw_pct")
    @@ ("Sk" :> "passing_sacks_taken")
    @@ ("Bltz" :> "passing_blitzes_taken")
    @@ ("Hrry" :> "passing_hurries_taken")
    @@ ("Hits" :> "passing_qb_hits_taken")
    @@ ("Prss" :> "passing_pressures_taken")
    @@ ("Prss%" :> "passing_pressure_pct_taken")
    @@ ("Scrm" :> "passing_scrambles")
    @@ ("Yds/Scr" :> "passing_yards_per_scramble")

RECEIVING_ADVANCED_RENAMING_DICT ==
    ("Player" :> "player")
    @@ ("Tm" :> "team")
    @@ ("1D" :> "receiving_first_downs")
    @@ ("YBC" :> "receiving_yards_before_catch")
    @@ ("YBC/R" :> "receiving_yards_before_catch_per_reception")
    @@ ("YAC" :> "receiving_yards_after_catch")
    @@ ("YAC/R" :> "receiving_yards_after_catch_per_reception")
    @@ ("ADOT" :> "receiving_average_depth_of_target")
    @@ ("BrkTkl" :> "receiving_broken_tackles")
    @@ ("Rec/Br" :> "receiving_receptions_per_broken_tackle")
    @@ ("Drop" :> "receiving_drops")
    @@ ("Drop%" :> "receiving_drop_percentage")
    @@ ("Int" :> "receiving_interceptions")
    @@ ("Rat" :> "receiving_passer_rating")

RUSHING_ADVANCED_RENAMING_DICT ==
    ("Player" :> "player")
    @@ ("Tm" :> "team")
    @@ ("1D" :> "rushing_first_downs")
    @@ ("YBC" :> "rushing_yards_before_contact")
    @@ ("YBC/Att" :> "rushing_yards_before_contact_per_attempt")
    @@ ("YAC" :> "rushing_yards_after_contact")
    @@ ("YAC/Att" :> "rushing_yards_after_contact_per_attempt")
    @@ ("BrkTkl" :> "rushing_broken_tackles")
    @@ ("Att/Br" :> "rushing_attempts_per_broken_tackle")

DEFENSE_ADVANCED_RENAMING_DICT ==
    ("Player" :> "player")
    @@ ("Tm" :> "team")
    @@ ("Tgt" :> "defensive_targets")
    @@ ("Cmp" :> "defensive_completions_allowed")
    @@ ("Cmp%" :> "defensive_completion_percentage")
    @@ ("Yds/Cmp" :> "defensive_yards_per_completion")
    @@ ("Yds/Tgt" :> "defensive_yards_per_target")
    @@ ("Rat" :> "defensive_passer_rating")
    @@ ("DADOT" :> "defensive_average_depth_of_target")
    @@ ("Air" :> "defensive_air_yards_allowed")
    @@ ("YAC" :> "defensive_yards_after_catch_allowed")
    @@ ("Bltz" :> "defensive_blitzes")
    @@ ("Hrry" :> "defensive_hurries")
    @@ ("QBKD" :> "defensive_qb_hits")
    @@ ("Prss" :> "defensive_pressures")
    @@ ("Comb" :> "defensive_combined_tackles")
    @@ ("MTkl" :> "defensive_missed_tackles")
    @@ ("MTkl%" :> "defensive_missed_tackle_percentage")

SNAP_COUNT_RENAMING_DICT ==
    ("Player" :> "player")
    @@ ("Pos" :> "position")
    @@ ("Num" :> "offensive_snaps")
    @@ ("Pct" :> "offensive_snaps_percentage")
    @@ ("Num.1" :> "defensive_snaps")
    @@ ("Pct.1" :> "defensive_snaps_percentage")
    @@ ("Num.2" :> "special_teams_snaps")
    @@ ("Pct.2" :> "special_teams_snaps_percentage")

----------------------------------------------------------------------------
(* Ordering of values, as sort_values / groupby(sort=True) / an outer merge *)
(* order them: strings by code point, nulls last.                           *)

\* every string a sort key can hold in this model, in Python's string order
StringOrder ==
    << "", "1", "18", "2", "2023-01-08", "2023-02-12", "2023-08-15", "2023-09-10",
       "2023-09-17", "A", "Amon-Ra St. Brown", "Baker Mayfield", "Buccaneers",
       "Chase McLaughlin", "CousKi00", "G. Joseph", "Greg Joseph", "H", "Harrison Smith", "JoseGr00",
       "K", "Kirk Cousins", "MIN", "MayfBa00", "McLaCh00", "P", "Player", "QB", "SmitHa00",
       "St", "St.BrAm00", "SuperBowl", "TB", "Vikings",
       "https://www.pro-football-reference.com/boxscores/202301080min.htm",
       "https://www.pro-football-reference.com/boxscores/202301080tam.htm",
       "https://www.pro-football-reference.com/boxscores/202302120min.htm",
       "https://www.pro-football-reference.com/boxscores/202302120tam.htm",
       "https://www.pro-football-reference.com/boxscores/202308150min.htm",
       "https://www.pro-football-reference.com/boxscores/202308150tam.htm",
       "https://www.pro-football-reference.com/boxscores/202309100min.htm",
       "https://www.pro-football-reference.com/boxscores/202309100tam.htm",
       "https://www.pro-football-reference.com/boxscores/202309170min.htm",
       "https://www.pro-football-reference.com/boxscores/202309170tam.htm" >>

Rank(v) == CHOOSE i \in 1..Len(StringOrder) : StringOrder[i] = v

\* r1 sorts strictly before r2 on the key columns by (a sequence), nulls last
RECURSIVE RowLess(_, _, _)
RowLess(r1, r2, by) ==
    IF by = <<>> THEN FALSE
    ELSE LET c == Head(by)
         IN  CASE IsNull(r1, c) /\ IsNull(r2, c) -> RowLess(r1, r2, Tail(by))
               [] IsNull(r1, c) -> FALSE
               [] IsNull(r2, c) -> TRUE
               [] r1[c] = r2[c] -> RowLess(r1, r2, Tail(by))
               [] OTHER -> Rank(r1[c]) < Rank(r2[c])

\* insert row r into the sorted sequence s after every row not greater than it
RECURSIVE InsertSorted(_, _, _)
InsertSorted(s, r, by) ==
    IF s = <<>> THEN <<r>>
    ELSE IF RowLess(r, Head(s), by) THEN <<r>> \o s
         ELSE <<Head(s)>> \o InsertSorted(Tail(s), r, by)

\* a stable sort of the rows on the key columns by
RECURSIVE SortRows(_, _)
SortRows(rows, by) ==
    IF rows = <<>> THEN <<>>
    ELSE InsertSorted(SortRows(SubSeq(rows, 1, Len(rows) - 1), by), rows[Len(rows)], by)

\* the distinct rows of a sequence, each at its first occurrence (drop_duplicates)
DropDuplicateRows(rows) ==
    SelectIdx(rows, {i \in 1..Len(rows) : \A j \in 1..(i - 1) : rows[j] # rows[i]})

----------------------------------------------------------------------------
(* _extract_ids *)

IsTuple(x) == "text" \in DOMAIN x

\* x[0] if isinstance(x, tuple) else x
Unwrap(x) == IF IsTuple(x) THEN x.text ELSE x.value

\* href.split("/")[0]: the tokens before the first "/"
FirstSegment(h) ==
    LET slashes == {i \in 1..Len(h) : h[i] = "/"}
    IN  IF slashes = {} THEN h
        ELSE SubSeq(h, 1, (CHOOSE i \in slashes : \A j \in slashes : i <= j) - 1)

\* href.split("/")[-1]: the tokens after the last "/"
LastSegment(h) ==
    LET slashes == {i \in 1..Len(h) : h[i] = "/"}
    IN  IF slashes = {} THEN h
        ELSE SubSeq(h, (CHOOSE i \in slashes : \A j \in slashes : j <= i) + 1, Len(h))

\* segment.split(".")[0]: the tokens before the first "."
FirstPiece(s) ==
    LET dots == {i \in 1..Len(s) : s[i] = "."}
    IN  IF dots = {} THEN s
        ELSE SubSeq(s, 1, (CHOOSE i \in dots : \A j \in dots : i <= j) - 1)

RECURSIVE JoinTokens(_)
JoinTokens(s) == IF s = <<>> THEN "" ELSE Head(s) \o JoinTokens(Tail(s))

\* lambda x: x.split("/")[-1].split(".")[0]
SlugOf(h) == JoinTokens(FirstPiece(LastSegment(h)))

\* the two apply() calls on the identity cell: does it yield a player_id at all
\* (a tuple whose href is neither None nor "")
HasId(x) == IsTuple(x) /\ "href" \in DOMAIN x /\ x.href # <<>>

ExtractRow(r, id_cell) ==
    LET texts == [c \in DOMAIN r |-> Unwrap(r[c])]
    IN  IF HasId(id_cell) THEN With(texts, "player_id", SlugOf(id_cell.href)) ELSE texts

extract_ids(table, id_col) ==
    DataFrame(table.columns \cup {"player_id"},
              [i \in 1..Len(table.rows) |-> ExtractRow(table.rows[i], table.rows[i][id_col])])

\* df.dropna(subset=cols)
dropna(df, cols) ==
    DataFrame(df.columns,
              SelectIdx(df.rows, {i \in 1..Len(df.rows) : cols \subseteq DOMAIN df.rows[i]}))

\* Series.unique(): the distinct non-null values of a column in order of appearance
RECURSIVE unique(_, _)
unique(rows, c) ==
    IF rows = <<>> THEN <<>>
    ELSE LET rest == unique(SubSeq(rows, 1, Len(rows) - 1), c)
             r == rows[Len(rows)]
         IN  IF IsNull(r, c) \/ r[c] \in SeqToSet(rest) THEN rest ELSE Append(rest, r[c])

\* the home_away column of a table: "H" if x.team == x.home_team else "A"
HomeAway(r, teamcol) ==
    IF NotNull(r, teamcol) /\ NotNull(r, "home_team") /\ r[teamcol] = r.home_team
    THEN "H" ELSE "A"

\* what a builder hands back: the exception it raised ("" for none) and its table
Returned(df) == [raised |-> "", df |-> df]
Raised(e) == [raised |-> e, df |-> EmptyDataFrame]

----------------------------------------------------------------------------
(* The table builders.  Each takes the collector's attributes (and reads   *)
(* the page it fetched) and hands back the exception raised or the table,  *)
(* with the attributes as the call leaves them.                            *)

BuilderResult(res, slf) == [raised |-> res.raised, df |-> res.df, self |-> slf]

\* rows of the offense table after the positional renaming
\* main_table.columns = OFFENSIVE_COLUMNS_LIST (the last column is player_id)
OffenseNamedRow(cells) ==
    LET n == Len(OFFENSIVE_COLUMNS_LIST)
        texts == [c \in {OFFENSIVE_COLUMNS_LIST[i] : i \in 1..(n - 1)} |->
                    Unwrap(cells[CHOOSE i \in 1..(n - 1) : OFFENSIVE_COLUMNS_LIST[i] = c])]
    IN  IF HasId(cells[1])
        THEN With(texts, OFFENSIVE_COLUMNS_LIST[n], SlugOf(cells[1].href))
        ELSE texts

OffenseContextRow(r, slf, home, away) ==
    LET r1 == With(r, "date", slf.str_date)
        r2 == With(With(r1, "home_team", home), "away_team", away)
        r3 == With(r2, "home_away", HomeAway(r2, "Tm"))
        r4 == With(With(r3, "source_url", slf.url), "week", slf.week)
    IN  RenameRow(OFFENSIVE_RENAMING_DICT, r4)

\* the offense table of a collector that determines the home and away team
\* once, for the first game it scrapes
fetch_offensive_once(slf, pg) ==
    LET s1 == With(slf, "main_soup", pg)
    IN  IF "player_offense" \notin DOMAIN pg
        THEN BuilderResult(Raised("ValueError"), s1)        \* read_html: no tables found
        ELSE
        LET raw == pg.player_offense
            named == [i \in 1..Len(raw) |-> OffenseNamedRow(raw[i])]
            kept == SelectIdx(named, {i \in 1..Len(raw) : NotNull(named[i], "player_id")})
            teams == unique(kept, "Tm")
        IN  IF \E i \in 1..Len(raw) : Len(raw[i]) + 1 # Len(OFFENSIVE_COLUMNS_LIST)
            THEN BuilderResult(Raised("ValueError"), s1)    \* length mismatch
            ELSE IF Len(teams) < 2
            THEN BuilderResult(Raised("IndexError"), s1)    \* Tm.unique()[1]
            ELSE
            LET s2 == IF "home_team" \in DOMAIN s1 THEN s1
                      ELSE With(With(s1, "home_team", teams[2]), "away_team", teams[1])
                cols == {RenameHeader(OFFENSIVE_RENAMING_DICT, c) :
                            c \in SeqToSet(OFFENSIVE_COLUMNS_LIST)}
                        \cup {"date", "home_team", "away_team", "home_away",
                              "source_url", "week"}
            IN  BuilderResult(
                    Returned(DataFrame(cols,
                        [i \in 1..Len(kept) |->
                            OffenseContextRow(kept[i], s2, s2.home_team, s2.away_team)])),
                    s2)

fetch_offensive_boxscore(slf, pg) ==
    LET s1 == With(slf, "main_soup", pg)
    IN  IF "player_offense" \notin DOMAIN pg
        THEN BuilderResult(Raised("ValueError"), s1)        \* read_html: no tables found
        ELSE
        LET raw == pg.player_offense
            named == [i \in 1..Len(raw) |-> OffenseNamedRow(raw[i])]
            kept == SelectIdx(named, {i \in 1..Len(raw) : NotNull(named[i], "player_id")})
            teams == unique(kept, "Tm")
        IN  IF \E i \in 1..Len(raw) : Len(raw[i]) + 1 # Len(OFFENSIVE_COLUMNS_LIST)
            THEN BuilderResult(Raised("ValueError"), s1)    \* length mismatch
            ELSE IF Len(teams) < 2
            THEN BuilderResult(Raised("IndexError"), s1)    \* Tm.unique()[1]
            ELSE
            LET s2 == With(With(s1, "home_team", teams[2]), "away_team", teams[1])
                cols == {RenameHeader(OFFENSIVE_RENAMING_DICT, c) :
                            c \in SeqToSet(OFFENSIVE_COLUMNS_LIST)}
                        \cup {"date", "home_team", "away_team", "home_away",
                              "source_url", "week"}
            IN  BuilderResult(
                    Returned(DataFrame(cols,
                        [i \in 1..Len(kept) |->
                            OffenseContextRow(kept[i], s2, teams[2], teams[1])])),
                    s2)

\* Series.str.contains(phrase), on a text held as its sequence of words
Contains(words, phrase) ==
    \E i \in 1..(Len(words) - Len(phrase) + 1) :
        SubSeq(words, i, i + Len(phrase) - 1) = phrase

\* x.split("yard")[0].split(" "): the words before the first "yard", and the
\* empty string that follows their trailing space; all the words without a "yard"
BeforeYard(words) ==
    LET yards == {i \in 1..Len(words) : words[i] = "yard"}
    IN  IF yards = {} THEN words
        ELSE Append(SubSeq(words, 1, (CHOOSE i \in yards : \A j \in yards : i <= j) - 1), "")

RECURSIVE JoinWords(_)
JoinWords(s) ==
    IF s = <<>> THEN ""
    ELSE IF Len(s) = 1 THEN Head(s)
    ELSE Head(s) \o " " \o JoinWords(Tail(s))

\* " ".join(parts[0:-2])
KickerOf(words) ==
    LET parts == BeforeYard(words) IN JoinWords(SubSeq(parts, 1, Len(parts) - 2))

\* pd.to_numeric(text, errors="coerce") on the distances a page can hold
Numerals == ("19" :> 19) @@ ("30" :> 30) @@ ("45" :> 45) @@ ("52" :> 52)

\* the number of values of a column
CountSeq(s) == Len(s)

RECURSIVE SumSeq(_)
SumSeq(s) == IF s = <<>> THEN 0 ELSE Head(s) + SumSeq(Tail(s))

\* one row of fg_agg: count, sum and mean of the group's non-null distances
FgAggRow(key, rows) ==
    LET mine == SelectIdx(rows, {i \in 1..Len(rows) :
                    /\ rows[i].player_id = key[1]
                    /\ rows[i].kicker = key[2]
                    /\ rows[i].Tm = key[3]})
        dist == SelectIdx(mine, {i \in 1..Len(mine) : NotNull(mine[i], "distance")})
        total == SumSeq([i \in 1..Len(dist) |-> dist[i].distance])
        base == [player_id |-> key[1], kicker |-> key[2], Tm |-> key[3],
                 kicking_num_field_goals_made |-> Len(dist),
                 kicking_total_made_field_goals_distance |-> total]
    IN  IF dist = <<>> THEN base
        ELSE With(base, "kicking_field_goals_made_average_distance",
                  [num |-> total, den |-> Len(dist)])

FgColumns ==
    {"index", "player_id", "player", "team", "kicking_num_field_goals_made",
     "kicking_total_made_field_goals_distance",
     "kicking_field_goals_made_average_distance", "date", "week", "source_url",
     "home_team", "away_team", "position", "home_away"}

FgContextRow(r, i, slf) ==
    LET r0 == RenameRow(FG_RENAMING_DICT, With(r, "index", i - 1))
        r1 == With(With(With(r0, "date", slf.str_date), "week", slf.week),
                   "source_url", slf.url)
        r2 == With(With(r1, "home_team", slf.home_team), "away_team", slf.away_team)
        r3 == With(r2, "position", "K")
    IN  With(r3, "home_away", HomeAway(r3, "team"))

\* the rows whose Detail mentions a field goal
field_goal_mentions(rows) ==
    SelectIdx(rows, {i \in 1..Len(rows) : Contains(rows[i].Detail, <<"field", "goal">>)})

\* Detail.str.contains("field goal") & (Detail.str.contains("field goal return") == False)
field_goal_rows(rows) ==
    SelectIdx(rows, {i \in 1..Len(rows) :
        /\ Contains(rows[i].Detail, <<"field", "goal">>)
        /\ ~Contains(rows[i].Detail, <<"field", "goal", "return">>)})

fetch_fg_boxscore(slf) ==
    IF "scoring" \notin DOMAIN slf.main_soup
    THEN BuilderResult(Raised("ValueError"), slf)           \* read_html: no tables found
    ELSE
    LET ids == dropna(extract_ids(slf.main_soup.scoring, "Detail"), {"player_id"}).rows
        makes == field_goal_rows(ids)
        short == \E i \in 1..Len(makes) : Len(BeforeYard(makes[i].Detail)) < 2
        parsed == [i \in 1..Len(makes) |->
                    LET parts == BeforeYard(makes[i].Detail)
                        d == parts[Len(parts) - 1]
                        r == [player_id |-> makes[i].player_id,
                              kicker |-> KickerOf(makes[i].Detail),
                              Tm |-> makes[i].Tm]
                    IN  IF d \in DOMAIN Numerals THEN With(r, "distance", Numerals[d])
                        ELSE r]
        keys == SortRows(
                    DropDuplicateRows([i \in 1..Len(parsed) |->
                        Restrict(parsed[i], {"player_id", "kicker", "Tm"})]),
                    <<"player_id", "kicker", "Tm">>)
        agg == [i \in 1..Len(keys) |->
                    FgAggRow(<<keys[i].player_id, keys[i].kicker, keys[i].Tm>>, parsed)]
    IN  IF short THEN BuilderResult(Raised("IndexError"), slf)   \* split(" ")[-2]
        ELSE IF "home_team" \notin DOMAIN slf
        THEN BuilderResult(Raised("AttributeError"), slf)
        ELSE BuilderResult(
                Returned(DataFrame(FgColumns,
                    [i \in 1..Len(agg) |-> FgContextRow(agg[i], i, slf)])),
                slf)

\* _fetch_commented_tables: the tables found in the page's comments
fetch_commented_tables(slf, pg) == With(slf, "commented_out_tables", pg.commented)

\* "snap_count" in table_id
SnapTableIds == {"home_snap_counts", "vis_snap_counts"}

CommentedContextRow(r, table_id, renaming_dict, slf) ==
    LET r0 == RenameRow(renaming_dict, r)
        r1 == With(With(With(r0, "source_url", slf.url), "date", slf.str_date),
                   "week", slf.week)
        r2 == With(With(r1, "home_team", slf.home_team), "away_team", slf.away_team)
    IN  With(r2, "home_away",
             IF table_id \notin SnapTableIds THEN HomeAway(r2, "team")
             ELSE IF table_id = "home_snap_counts" THEN "H" ELSE "A")

fetch_commented_table(slf, table_id, id_col, renaming_dict) ==
    IF table_id \notin DOMAIN slf.commented_out_tables
    THEN BuilderResult(Returned(EmptyDataFrame), slf)       \* except IndexError
    ELSE
    LET raw == slf.commented_out_tables[table_id]
        table == dropna(extract_ids(raw, id_col), {"player_id"})
        cols == {RenameHeader(renaming_dict, c) : c \in table.columns}
                \cup {"source_url", "date", "week", "home_team", "away_team", "home_away"}
    IN  IF id_col \notin raw.columns THEN BuilderResult(Raised("KeyError"), slf)
        ELSE IF "home_team" \notin DOMAIN slf
        THEN BuilderResult(Raised("AttributeError"), slf)
        ELSE IF table_id \notin SnapTableIds /\ "team" \notin cols /\ table.rows # <<>>
        THEN BuilderResult(Raised("AttributeError"), slf)   \* x.team
        ELSE BuilderResult(
                Returned(DataFrame(cols,
                    [i \in 1..Len(table.rows) |->
                        CommentedContextRow(table.rows[i], table_id, renaming_dict, slf)])),
                slf)

----------------------------------------------------------------------------
(* pandas operations of _process_and_upload_data *)

\* pd.merge names a non-key column held by both sides c_x (left) and c_y (right)
SuffixRow(r, overlap, suffix) ==
    LET new == {IF c \in overlap THEN c \o suffix ELSE c : c \in DOMAIN r}
    IN  [n \in new |-> r[CHOOSE c \in DOMAIN r :
                            (IF c \in overlap THEN c \o suffix ELSE c) = n]]

\* an inner join: the rows of either side that the other side has no row for
\* are left out
InnerRows(lrows, rrows, on) ==
    FlattenSeq([i \in 1..Len(lrows) |->
        LET hit == SelectIdx(rrows, {j \in 1..Len(rrows) :
                        Restrict(rrows[j], on) = Restrict(lrows[i], on)})
        IN  [k \in 1..Len(hit) |-> lrows[i] @@ hit[k]]])

\* the rows of pd.merge(left, right, on=on, how="outer"), before its sort:
\* every left row joined to each right row of the same key (or alone), then the
\* right rows no left row matched
OuterRows(lrows, rrows, on) ==
    LET joined == [i \in 1..Len(lrows) |->
                    LET m == {j \in 1..Len(rrows) :
                                Restrict(rrows[j], on) = Restrict(lrows[i], on)}
                    IN  IF m = {} THEN <<lrows[i]>>
                        ELSE LET hit == SelectIdx(rrows, m)
                             IN  [k \in 1..Len(hit) |-> lrows[i] @@ hit[k]]]
        lonely == {j \in 1..Len(rrows) :
                    \A i \in 1..Len(lrows) : Restrict(rrows[j], on) # Restrict(lrows[i], on)}
    IN  FlattenSeq(joined) \o SelectIdx(rrows, lonely)

\* pd.merge(left, right, on=on, how="outer"); on is the list of key columns.
\* An outer merge sorts its result on the keys.
merge_outer(left, right, on) ==
    LET keys == SeqToSet(on)
        overlap == (left.columns \cap right.columns) \ keys
        lrows == [i \in 1..Len(left.rows) |-> SuffixRow(left.rows[i], overlap, "_x")]
        rrows == [i \in 1..Len(right.rows) |-> SuffixRow(right.rows[i], overlap, "_y")]
        cols == {IF c \in overlap THEN c \o "_x" ELSE c : c \in left.columns}
                \cup {IF c \in overlap THEN c \o "_y" ELSE c : c \in right.columns}
    IN  IF ~(keys \subseteq left.columns /\ keys \subseteq right.columns)
        THEN Raised("KeyError")
        ELSE Returned(DataFrame(cols, SortRows(OuterRows(lrows, rrows, keys), on)))

\* pd.merge(left, right, on=on, how="left"): the left rows in their order, each
\* joined to every right row of the same key
merge_left(left, right, on) ==
    LET keys == SeqToSet(on)
        overlap == (left.columns \cap right.columns) \ keys
        lrows == [i \in 1..Len(left.rows) |-> SuffixRow(left.rows[i], overlap, "_x")]
        rrows == [i \in 1..Len(right.rows) |-> SuffixRow(right.rows[i], overlap, "_y")]
        cols == {IF c \in overlap THEN c \o "_x" ELSE c : c \in left.columns}
                \cup {IF c \in overlap THEN c \o "_y" ELSE c : c \in right.columns}
        joined == [i \in 1..Len(lrows) |->
                    LET m == {j \in 1..Len(rrows) :
                                Restrict(rrows[j], keys) = Restrict(lrows[i], keys)}
                    IN  IF m = {} THEN <<lrows[i]>>
                        ELSE LET hit == SelectIdx(rrows, m)
                             IN  [k \in 1..Len(hit) |-> lrows[i] @@ hit[k]]]
    IN  IF ~(keys \subseteq left.columns /\ keys \subseteq right.columns)
        THEN Raised("KeyError")
        ELSE Returned(DataFrame(cols, FlattenSeq(joined)))

\* reduce(lambda left, right: pd.merge(left, right, ...), dfs) of a non-empty list
RECURSIVE reduce_merge(_, _)
reduce_merge(dfs, on) ==
    IF Len(dfs) = 1 THEN Returned(dfs[1])
    ELSE LET left == reduce_merge(SubSeq(dfs, 1, Len(dfs) - 1), on)
         IN  IF left.raised # "" THEN left
             ELSE merge_outer(left.df, dfs[Len(dfs)], on)

\* _concat_and_drop
concat_and_drop(dfs, drop_cols) ==
    LET df == IF dfs # <<>> THEN concat(dfs) ELSE EmptyDataFrame
    IN  IF drop_cols # {} /\ ~empty(df) THEN DropColumns(df, drop_cols) ELSE df

----------------------------------------------------------------------------
(* _process_and_upload_data *)

\* the ten arguments, in the order of dfs_to_merge
Categories ==
    << "offensive_dfs", "fg_dfs", "defense_dfs", "punt_kick_return_dfs",
       "punt_kick_dfs", "passing_adv_dfs", "receiving_adv_dfs", "rushing_adv_dfs",
       "defense_adv_dfs", "snap_count_dfs" >>

\* drop_cols of each _concat_and_drop call
DropCols ==
    [c \in SeqToSet(Categories) |->
        CASE c = "passing_adv_dfs" -> {"Cmp", "Att", "Yds"}
          [] c = "receiving_adv_dfs" -> {"Tgt", "Rec", "Yds", "TD"}
          [] c = "rushing_adv_dfs" -> {"Att", "Yds", "TD"}
          [] c = "defense_adv_dfs" -> {"Int", "Yds", "TD", "Sk", "defensive_qb_hits"}
          [] OTHER -> {}]

MergeKey ==
    << "player_id", "player", "team", "date", "week", "home_team", "away_team",
       "home_away" >>

SourceUrlKey == << "player_id", "player", "team", "date" >>

identifier_cols ==
    {"player", "player_id", "team", "date", "week", "season", "home_away",
     "home_team", "away_team"}

key_cols ==
    << "player", "player_id", "date", "week", "season", "home_team", "away_team",
       "source_url" >>

\* the season of the schedule page a day's games are looked up on:
\* date.year if date.month > 8 else date.year - 1
SeasonOfSchedule(d) == IF d.month > 8 THEN d.year ELSE d.year - 1

\* current_date.year if current_date.month > 7 else current_date.year - 1
SeasonOf(d) == IF d.month > 7 THEN d.year ELSE d.year - 1

\* the batch tagging: merged["season"] = <season of current_date>, then
\* merged.drop_duplicates()
tag_season(df, current_date) ==
    DataFrame(df.columns \cup {"season"},
              DropDuplicateRows(Assign(df, "season", SeasonOf(current_date)).rows))

\* the concatenated table of one category (offense is concatenated directly)
Boxscores(dfs_by_cat, c) ==
    IF c = "offensive_dfs" THEN concat(dfs_by_cat[c])
    ELSE concat_and_drop(dfs_by_cat[c], DropCols[c])

\* the ten concatenated tables, the empty ones included
all_boxscores(dfs_by_cat, order) ==
    [i \in 1..Len(order) |-> Boxscores(dfs_by_cat, order[i])]

\* dfs_to_merge: the non-empty tables, in the order the categories are listed
dfs_to_merge(dfs_by_cat, order) ==
    LET all == [i \in 1..Len(order) |-> Boxscores(dfs_by_cat, order[i])]
    IN  SelectIdx(all, {i \in 1..Len(all) : ~empty(all[i])})

\* df[[cols]] of every table that has a source_url column
source_urls(dfs) ==
    LET cols == SeqToSet(SourceUrlKey) \cup {"source_url"}
        with == SelectIdx(dfs, {i \in 1..Len(dfs) :
                    "source_url" \in dfs[i].columns /\ ~empty(dfs[i])})
    IN  IF \E i \in 1..Len(with) : ~(cols \subseteq with[i].columns)
        THEN [raised |-> "KeyError", dfs |-> <<>>]
        ELSE [raised |-> "",
              dfs |-> [i \in 1..Len(with) |->
                        DataFrame(cols, [k \in 1..Len(with[i].rows) |->
                                            Restrict(with[i].rows[k], cols)])]]

\* the outer-join chain over the tables without their source_url column
merge_main(dfs) ==
    reduce_merge([i \in 1..Len(dfs) |-> DropColumns(dfs[i], {"source_url"})], MergeKey)

\* merged.position_y.combine_first(merged.position_x), then both columns dropped
CondensePosition(r) ==
    LET rest == Restrict(r, (DOMAIN r) \ {"position_x", "position_y"})
    IN  IF NotNull(r, "position_y") THEN With(rest, "position", r.position_y)
        ELSE IF NotNull(r, "position_x") THEN With(rest, "position", r.position_x)
        ELSE rest

\* group.iloc[0]: the group's first row, without the fills
first_row(group) == group[1]

\* combine_duplicate_rows: group.ffill().bfill().iloc[0], each column's first
\* non-null value in the group's order
RECURSIVE combine_duplicate_rows(_)
combine_duplicate_rows(group) ==
    IF Len(group) = 1 THEN group[1]
    ELSE group[1] @@ combine_duplicate_rows(Tail(group))

\* sort_values(key_cols).groupby(key_cols, dropna=False, as_index=False).apply(combine)
groupby_apply(df) ==
    LET keys == SeqToSet(key_cols)
        sorted == SortRows(df.rows, key_cols)
        firsts == {i \in 1..Len(sorted) :
                    \A j \in 1..(i - 1) : Restrict(sorted[j], keys) # Restrict(sorted[i], keys)}
        heads == SelectIdx(sorted, firsts)
    IN  DataFrame(df.columns,
            [g \in 1..Len(heads) |->
                combine_duplicate_rows(
                    SelectIdx(sorted, {i \in 1..Len(sorted) :
                        Restrict(sorted[i], keys) = Restrict(heads[g], keys)}))])

\* reset_index() without drop=True: the old index becomes a column, named
\* index, or level_0 when the table has a column index already
resolve_keeping_index(df) ==
    LET g == groupby_apply(df)
        name == IF "index" \in g.columns THEN "level_0" ELSE "index"
    IN  DataFrame(g.columns \cup {name},
                  [i \in 1..Len(g.rows) |-> With(g.rows[i], name, i - 1)])

\* the duplicate resolution: the group-wise combination, then
\* reset_index(drop=True), which renumbers the rows and adds no column
resolve_duplicates(df) == groupby_apply(df)

\* What the body of the try block computes up to the validation: the stage it
\* reached, the exception it raised there, the table after the outer-join chain
\* (merged), the table handed to the duplicate resolution (condensed) and the
\* table after it (resolved).
Frames(stage, raised, merged, resolved) ==
    [stage |-> stage, raised |-> raised, merged |-> merged, resolved |-> resolved,
     condensed |-> EmptyDataFrame]

process_frames(dfs_by_cat, current_date, order) ==
    IF dfs_by_cat.offensive_dfs = <<>>
    THEN Frames("no_offense", "", EmptyDataFrame, EmptyDataFrame)
    ELSE
    Bind([dfs \in {dfs_to_merge(dfs_by_cat, order)} |->
    IF dfs = <<>>
    THEN Frames("nothing_to_merge", "", EmptyDataFrame, EmptyDataFrame)
    ELSE
    Bind([urls \in {source_urls(dfs)}, main \in {merge_main(dfs)} |->
    IF urls.raised # ""
    THEN Frames("source_urls", urls.raised, EmptyDataFrame, EmptyDataFrame)
    ELSE IF main.raised # ""
    THEN Frames("merge", main.raised, EmptyDataFrame, EmptyDataFrame)
    ELSE
    Bind([with_urls \in {IF urls.dfs = <<>> THEN Returned(main.df)
                         ELSE merge_left(main.df, concat(urls.dfs), SourceUrlKey)} |->
    IF with_urls.raised # ""
    THEN Frames("source_urls", with_urls.raised, main.df, EmptyDataFrame)
    ELSE
    Bind([tagged \in {tag_season(with_urls.df, current_date)} |->
    IF ~(identifier_cols \subseteq tagged.columns)
    THEN Frames("reorder", "KeyError", main.df, EmptyDataFrame)
    ELSE IF "index" \notin tagged.columns                 \* .drop(columns=["index"])
    THEN Frames("reorder", "KeyError", main.df, EmptyDataFrame)
    ELSE
    Bind([no_index \in {DropColumns(tagged, {"index"})} |->
    IF ~({"position_x", "position_y"} \subseteq no_index.columns)
    THEN Frames("position", "AttributeError", main.df, EmptyDataFrame)
    ELSE
    Bind([condensed \in {DataFrame((no_index.columns \ {"position_x", "position_y"})
                                        \cup {"position"},
                            [i \in 1..Len(no_index.rows) |->
                                CondensePosition(no_index.rows[i])])} |->
    IF ~(SeqToSet(key_cols) \subseteq condensed.columns)
    THEN Frames("duplicates", "KeyError", main.df, EmptyDataFrame)
    ELSE [Frames("resolved", "", main.df, resolve_duplicates(condensed))
            EXCEPT !.condensed = condensed]])])])])])])

----------------------------------------------------------------------------
(* The pages the collector is given: the content of one box-score page, as *)
(* pd.read_html(..., extract_links="body") reads its tables.               *)

Cell(text) == [text |-> text]
Link(text, href) == [text |-> text, href |-> href]

\* /players/<letter>/<slug>.htm, the slug given as its tokens
PlayerHref(letter, slug) == <<"/", "players", "/", letter, "/">> \o slug \o <<".", "htm">>

MayfieldCell == Link("Baker Mayfield", PlayerHref("M", <<"MayfBa00">>))
CousinsCell == Link("Kirk Cousins", PlayerHref("C", <<"CousKi00">>))
JosephCell == Link("Greg Joseph", PlayerHref("J", <<"JoseGr00">>))
SmithCell == Link("Harrison Smith", PlayerHref("S", <<"SmitHa00">>))

\* one row of the player_offense table: the player, the team, twenty stat cells
OffenseCells(player, tm) == <<player, Cell(tm)>> \o [i \in 1..20 |-> Cell("7")]

RawTable(rows) ==
    DataFrame(UNION {DOMAIN rows[i] : i \in 1..Len(rows)}, rows)

\* the scoring table: a touchdown, and (with_fg) a field goal whose Tm cell and
\* kicker name are written as given
ScoringTable(with_fg, fg_team, fg_name) ==
    RawTable(
        << [Quarter |-> Cell("1"), Tm |-> Cell(fg_team),
            Detail |-> Link(<<"Kirk", "Cousins", "1", "yard", "rush">>, CousinsCell.href)] >>
        \o (IF with_fg
            THEN << [Quarter |-> Cell(""), Tm |-> Cell(fg_team),
                     Detail |-> Link(fg_name \o <<"30", "yard", "field", "goal">>,
                                     JosephCell.href)] >>
            ELSE <<>>))

\* the commented-out tables of the page, by table id
CommentedTable(table_id, snap_pos) ==
    CASE table_id = "player_defense" ->
            RawTable(<< [Player |-> SmithCell, Tm |-> Cell("MIN"),
                         Sk |-> Cell("1"), QBHits |-> Cell("1")] >>)
      [] table_id = "returns" ->
            RawTable(<< [Player |-> SmithCell, Tm |-> Cell("MIN"), Rt |-> Cell("1")] >>)
      [] table_id = "kicking" ->
            RawTable(<< [Player |-> JosephCell, Tm |-> Cell("MIN"), XPM |-> Cell("2"),
                         FGM |-> Cell("1"), Pnt |-> Cell("4")] >>)
      [] table_id = "passing_advanced" ->
            RawTable(<< ("Player" :> CousinsCell) @@ ("Tm" :> Cell("MIN"))
                        @@ ("Cmp" :> Cell("21")) @@ ("1D" :> Cell("10"))
                        @@ ("Bad%" :> Cell("12.5%")) >>)
      [] table_id = "receiving_advanced" ->
            RawTable(<< ("Player" :> CousinsCell) @@ ("Tm" :> Cell("MIN"))
                        @@ ("Tgt" :> Cell("1")) @@ ("1D" :> Cell("1")) >>)
      [] table_id = "rushing_advanced" ->
            RawTable(<< ("Player" :> MayfieldCell) @@ ("Tm" :> Cell("TB"))
                        @@ ("Att" :> Cell("3")) @@ ("1D" :> Cell("1")) >>)
      [] table_id = "defense_advanced" ->
            RawTable(<< [Player |-> SmithCell, Tm |-> Cell("MIN"), Sk |-> Cell("1"),
                         QBKD |-> Cell("1"), Prss |-> Cell("2")] >>)
      [] table_id = "home_snap_counts" ->
            RawTable(<< [Player |-> CousinsCell, Pos |-> Cell("QB"),
                         Num |-> Cell("60"), Pct |-> Cell("100%")],
                        [Player |-> JosephCell, Pos |-> Cell(snap_pos),
                         Num |-> Cell("0"), Pct |-> Cell("0%")] >>)
      [] table_id = "vis_snap_counts" ->
            RawTable(<< [Player |-> MayfieldCell, Pos |-> Cell("QB"),
                         Num |-> Cell("55"), Pct |-> Cell("100%")] >>)

CommentedIds ==
    {"player_defense", "returns", "kicking", "passing_advanced", "receiving_advanced",
     "rushing_advanced", "defense_advanced", "home_snap_counts", "vis_snap_counts"}

\* a page: the offense table (visitors first), the scoring table if any, and the
\* commented-out tables found
Page(scoring, fg_team, fg_name, commented, snap_pos) ==
    LET base == [player_offense |-> << OffenseCells(MayfieldCell, "TB"),
                                       OffenseCells(CousinsCell, "MIN") >>,
                 commented |-> [t \in commented |-> CommentedTable(t, snap_pos)]]
    IN  IF scoring = "absent" THEN base
        ELSE With(base, "scoring", ScoringTable(scoring = "fg", fg_team, fg_name))

----------------------------------------------------------------------------
(* run(): the block of one game (the body of the try of the inner loop)    *)

NoTables == [c \in SeqToSet(Categories) |-> <<>>]

\* an assignment in place of the append: the list holds the last table only
Overwrite(dfs_by_cat, c, df) == [dfs_by_cat EXCEPT ![c] = <<df>>]

Accumulate(dfs_by_cat, c, df) == [dfs_by_cat EXCEPT ![c] = Append(@, df)]

\* the seven _fetch_commented_table calls before the snap counts, in order:
\* table id, accumulator, renaming dictionary
CommentedCalls ==
    << <<"player_defense", "defense_dfs", PLAYER_DEFENSE_RENAMING_DICT>>,
       <<"returns", "punt_kick_return_dfs", PUNT_KICK_RETURNS_RENAMING_DICT>>,
       <<"kicking", "punt_kick_dfs", PUNT_KICK_RENAMING_DICT>>,
       <<"passing_advanced", "passing_adv_dfs", PASSING_ADVANCED_RENAMING_DICT>>,
       <<"receiving_advanced", "receiving_adv_dfs", RECEIVING_ADVANCED_RENAMING_DICT>>,
       <<"rushing_advanced", "rushing_adv_dfs", RUSHING_ADVANCED_RENAMING_DICT>>,
       <<"defense_advanced", "defense_adv_dfs", DEFENSE_ADVANCED_RENAMING_DICT>> >>

\* the calls in order, each table appended as soon as it is built; stops at the
\* first call that raises
RECURSIVE fetch_and_append(_, _, _)
fetch_and_append(slf, dfs_by_cat, calls) ==
    IF calls = <<>> THEN [raised |-> "", accs |-> dfs_by_cat]
    ELSE Bind([t \in {fetch_commented_table(slf, Head(calls)[1], "Player", Head(calls)[3])} |->
            IF t.raised # "" THEN [raised |-> t.raised, accs |-> dfs_by_cat]
            ELSE fetch_and_append(slf, Accumulate(dfs_by_cat, Head(calls)[2], t.df),
                                  Tail(calls))])

\* What the block leaves behind: the exception that ended it ("" when the game was
\* processed to the end), the accumulators and the collector's attributes.
GameResult(raised, dfs_by_cat, slf) == [raised |-> raised, accs |-> dfs_by_cat, self |-> slf]

\* pg is the page at the game's url; reachable says whether the second
\* driver.get (of _fetch_commented_tables) succeeds
scrape_game(slf, dfs_by_cat, pg, reachable) ==
    Bind([off \in {fetch_offensive_boxscore(slf, pg)} |->
    IF off.raised # "" THEN GameResult(off.raised, dfs_by_cat, off.self)
    ELSE
    Bind([a1 \in {Accumulate(dfs_by_cat, "offensive_dfs", off.df)},
          fg \in {fetch_fg_boxscore(off.self)} |->
    IF fg.raised # "" THEN GameResult(fg.raised, a1, off.self)
    ELSE
    Bind([a2 \in {Accumulate(a1, "fg_dfs", fg.df)} |->
    IF ~reachable THEN GameResult("WebDriverException", a2, off.self)
    ELSE
    Bind([s3 \in {fetch_commented_tables(off.self, pg)} |->
    Bind([seven \in {fetch_and_append(s3, a2, CommentedCalls)} |->
    IF seven.raised # "" THEN GameResult(seven.raised, seven.accs, s3)
    ELSE
    Bind([home \in {fetch_commented_table(s3, "home_snap_counts", "Player",
                                          SNAP_COUNT_RENAMING_DICT)} |->
    IF home.raised # "" THEN GameResult(home.raised, seven.accs, s3)
    ELSE
    Bind([away \in {fetch_commented_table(s3, "vis_snap_counts", "Player",
                                          SNAP_COUNT_RENAMING_DICT)} |->
    IF away.raised # "" THEN GameResult(away.raised, seven.accs, s3)
    ELSE GameResult("",
            Accumulate(
                Accumulate(seven.accs, "snap_count_dfs",
                           Assign(home.df, "team", s3.home_team)),
                "snap_count_dfs", Assign(away.df, "team", s3.away_team)),
            [s3 EXCEPT !.games_processed = @ + 1])])])])])])])])

----------------------------------------------------------------------------
(* pydantic_models/nfl_model.py: NFLBoxscore, and pydantic_convert_and_validate *)

\* the fields declared str
StrFields ==
    {"player", "player_id", "team", "home_away", "home_team", "away_team",
     "source_url"}

\* the fields declared Optional[float]
FloatFields ==
    {"passing_completions", "passing_attempts", "passing_yards",
     "passing_touchdowns", "passing_interceptions", "passing_sacks",
     "passing_sacked_yards", "passing_longest_pass", "passing_passer_rating",
     "passing_first_downs_thrown", "passing_first_down_pct",
     "passing_intended_air_yards", "passing_intended_air_yards_per_att",
     "passing_completed_air_yards", "passing_completed_air_yards_per_cmp",
     "passing_completed_air_yards_per_att", "passing_yards_after_catch",
     "passing_yards_after_catch_per_cmp", "passing_drops", "passing_drop_pct",
     "passing_bad_throws", "passing_bad_throw_pct", "passing_sacks_taken",
     "passing_blitzes_taken", "passing_hurries_taken", "passing_qb_hits_taken",
     "passing_pressures_taken", "passing_pressure_pct_taken", "passing_scrambles",
     "passing_yards_per_scramble", "rushing_attempts", "rushing_yards",
     "rushing_touchdowns", "rushing_longest_rush", "rushing_first_downs",
     "rushing_yards_before_contact", "rushing_yards_before_contact_per_attempt",
     "rushing_yards_after_contact", "rushing_yards_after_contact_per_attempt",
     "rushing_broken_tackles", "rushing_attempts_per_broken_tackle",
     "receiving_targets", "receiving_receptions", "receiving_yards",
     "receiving_touchdowns", "receiving_longest_reception", "receiving_first_downs",
     "receiving_yards_before_catch", "receiving_yards_before_catch_per_reception",
     "receiving_yards_after_catch", "receiving_yards_after_catch_per_reception",
     "receiving_average_depth_of_target", "receiving_broken_tackles",
     "receiving_receptions_per_broken_tackle", "receiving_drops",
     "receiving_drop_percentage", "receiving_interceptions",
     "receiving_passer_rating", "offensive_fumbles", "offensive_fumbles_lost",
     "kicking_num_field_goals_made", "kicking_total_made_field_goals_distance",
     "kicking_field_goals_made_average_distance", "kicking_extra_points_made",
     "kicking_extra_points_attempted", "kicking_field_goals_made",
     "kicking_field_goals_attempted", "defensive_interceptions",
     "defensive_interception_return_yards", "defensive_interception_touchdowns",
     "defensive_longest_interception_return", "defensive_passes_defended",
     "defensive_sacks", "defensive_total_tackles", "defensive_solo_tackles",
     "defensive_assisted_tackles", "defensive_tackles_for_loss",
     "defensive_qb_hits", "defensive_fumble_recoveries",
     "defensive_fumble_return_yards", "defensive_fumble_touchdowns",
     "defensive_forced_fumbles", "defensive_targets",
     "defensive_completions_allowed", "defensive_completion_percentage",
     "defensive_yards_per_completion", "defensive_yards_per_target",
     "defensive_passer_rating", "defensive_average_depth_of_target",
     "defensive_air_yards_allowed", "defensive_yards_after_catch_allowed",
     "defensive_blitzes", "defensive_hurries", "defensive_pressures",
     "defensive_combined_tackles", "defensive_missed_tackles",
     "defensive_missed_tackle_percentage", "kick_return_returns",
     "kick_return_yards", "kick_return_yards_per_return", "kick_return_touchdowns",
     "kick_return_longest_return", "punt_return_returns", "punt_return_yards",
     "punt_return_yards_per_return", "punt_return_touchdowns",
     "punt_return_longest_return", "punting_num_punts", "punting_punt_yards",
     "punting_yards_per_punt", "punting_longest_punt", "offensive_snaps",
     "offensive_snaps_percentage", "defensive_snaps", "defensive_snaps_percentage",
     "special_teams_snaps", "special_teams_snaps_percentage"}

\* every field of the model
ModelFields ==
    StrFields \cup FloatFields \cup {"position", "date", "week", "season"}


\* the columns whose cells are Python numbers (the field-goal aggregates, the
\* season, the row numbers a reset_index leaves); every other cell is text
IntColumns ==
    {"kicking_num_field_goals_made", "kicking_total_made_field_goals_distance", "season",
     "index", "level_0"}

FractionColumns == {"kicking_field_goals_made_average_distance"}

\* a cell with its Python type
Typed(k, v) ==
    IF k \in IntColumns THEN [int |-> v]
    ELSE IF k \in FractionColumns THEN [float |-> v]
    ELSE [str |-> v]

\* the texts v for which v.strip() == ""
BlankTexts == {"", " "}

\* v.strip("%") of the texts that end in "%"
PercentTexts ==
    ("12.5%" :> "12.5") @@ ("100%" :> "100") @@ ("0%" :> "0") @@ ("%" :> "")
    @@ ("45.2%" :> "45.2") @@ ("n/a%" :> "n/a")

\* int(v) of the texts that are whole numbers
IntTexts ==
    ("0" :> 0) @@ ("1" :> 1) @@ ("2" :> 2) @@ ("3" :> 3) @@ ("4" :> 4) @@ ("7" :> 7)
    @@ ("10" :> 10) @@ ("18" :> 18) @@ ("21" :> 21) @@ ("55" :> 55) @@ ("60" :> 60)
    @@ ("100" :> 100)

\* float(v) of the texts float() accepts, as numerator and denominator
FloatTexts ==
    [t \in DOMAIN IntTexts |-> [num |-> IntTexts[t], den |-> 1]]
    @@ ("12.5" :> [num |-> 125, den |-> 10]) @@ ("45.2" :> [num |-> 452, den |-> 10])

\* empty_string_to_none: blank text becomes NaN, except under the key position
empty_string_to_none(values) ==
    Restrict(values,
        {k \in DOMAIN values :
            ~("str" \in DOMAIN values[k] /\ values[k].str \in BlankTexts /\ k # "position")})

\* a "before" validator that leaves every value as it is
keep_values(values) == values

\* a parse that puts zero where float() raises
zero_percentages(values) ==
    [k \in DOMAIN values |->
        IF "str" \in DOMAIN values[k] /\ values[k].str \in DOMAIN PercentTexts
        THEN IF PercentTexts[values[k].str] \in DOMAIN FloatTexts
             THEN [float |-> [num |-> FloatTexts[PercentTexts[values[k].str]].num,
                              den |-> FloatTexts[PercentTexts[values[k].str]].den * 100]]
             ELSE [float |-> [num |-> 0, den |-> 1]]
        ELSE values[k]]

\* parse_percentages: text ending in "%" becomes float(v.strip("%")) / 100, and
\* stays as it is when float() raises
parse_percentages(values) ==
    [k \in DOMAIN values |->
        IF "str" \in DOMAIN values[k] /\ values[k].str \in DOMAIN PercentTexts
        THEN LET body == PercentTexts[values[k].str]
             IN  IF body \in DOMAIN FloatTexts
                 THEN [float |-> [num |-> FloatTexts[body].num,
                                  den |-> FloatTexts[body].den * 100]]
                 ELSE values[k]
        ELSE values[k]]

\* the "before" validators of the model: the one defined last runs first
before_validators(values) == parse_percentages(empty_string_to_none(values))

Pad2(n) == IF n < 10 THEN "0" \o ToString(n) ELSE ToString(n)

\* date.strftime("%Y-%m-%d")
StrDate(d) == ToString(d.year) \o "-" \o Pad2(d.month) \o "-" \o Pad2(d.day)


\* the days the model draws date ranges from, in calendar order: a game day of
\* the 2022 season, an off-season day, two game days of the 2023 season
Calendar ==
    << [year |-> 2023, month |-> 1, day |-> 8],
       [year |-> 2023, month |-> 8, day |-> 15],
       [year |-> 2023, month |-> 9, day |-> 10],
       [year |-> 2023, month |-> 9, day |-> 17] >>

\* the validation of one field: ok, and the value the model holds
Valid(v) == [ok |-> TRUE, value |-> v]
Invalid == [ok |-> FALSE]

\* t is the typed cell after the "before" validators
validate_field(k, t) ==
    CASE k \in StrFields \cup {"position"} ->
            IF "str" \in DOMAIN t THEN Valid(t.str) ELSE Invalid
      [] k = "date" ->
            IF "str" \in DOMAIN t /\ \E i \in 1..Len(Calendar) : StrDate(Calendar[i]) = t.str
            THEN Valid(Calendar[CHOOSE i \in 1..Len(Calendar) : StrDate(Calendar[i]) = t.str])
            ELSE Invalid
      [] k \in {"week", "season"} ->
            IF "int" \in DOMAIN t THEN Valid(t.int)
            ELSE IF "str" \in DOMAIN t /\ t.str \in DOMAIN IntTexts THEN Valid(IntTexts[t.str])
            ELSE IF "float" \in DOMAIN t /\ t.float.den = 1 THEN Valid(t.float.num)
            ELSE Invalid
      [] OTHER ->
            IF "int" \in DOMAIN t THEN Valid([num |-> t.int, den |-> 1])
            ELSE IF "float" \in DOMAIN t THEN Valid(t.float)
            ELSE IF t.str \in DOMAIN FloatTexts THEN Valid(FloatTexts[t.str])
            ELSE Invalid

\* NFLBoxscore.model_validate(row).model_dump(): columns is the table's header,
\* a column the row has no value in reaches the model as NaN; NaN is a valid
\* Optional[float] and an invalid str, date or int; keys that are no field of
\* the model are ignored; a field the table has no column for keeps its default
model_validate(row, columns) ==
    LET values == before_validators([k \in DOMAIN row |-> Typed(k, row[k])])
        given == columns \cap ModelFields
        nan == given \ DOMAIN values
        checked == [k \in given \cap DOMAIN values |-> validate_field(k, values[k])]
    IN  IF \/ nan \ FloatFields # {}
           \/ \E k \in DOMAIN checked : ~checked[k].ok
        THEN [raised |-> "ValidationError"]
        ELSE [raised |-> "", entry |-> [k \in DOMAIN checked |-> checked[k].value]]

\* the table handed on as it is, without the validation
skip_validation(df) == Returned(df)

\* pydantic_convert_and_validate(df, NFLBoxscore)
pydantic_convert_and_validate(df) ==
    Bind([entries \in {[i \in 1..Len(df.rows) |-> model_validate(df.rows[i], df.columns)]} |->
        IF \E i \in 1..Len(entries) : entries[i].raised # ""
        THEN Raised("ValidationError")
        ELSE Returned(DataFrame(IF entries = <<>> THEN {} ELSE ModelFields,
                                [i \in 1..Len(entries) |-> entries[i].entry]))])


----------------------------------------------------------------------------
(* _save_to_gcloud and _gcloud_upload_helper.  The bucket is a function    *)
(* from the seasons that have a file to the table stored in the file.      *)

\* drop_duplicates(subset=[...], keep="last"): the last row of every group is kept
RECURSIVE DropDuplicatesLast(_, _)
DropDuplicatesLast(rows, subset) ==
    IF rows = <<>> THEN <<>>
    ELSE IF \E i \in 2..Len(rows) : Restrict(rows[i], subset) = Restrict(rows[1], subset)
         THEN DropDuplicatesLast(Tail(rows), subset)
         ELSE <<rows[1]>> \o DropDuplicatesLast(Tail(rows), subset)

\* drop_duplicates(subset=[...]): the first row of every group is kept
RECURSIVE DropDuplicatesSubset(_, _)
DropDuplicatesSubset(rows, subset) ==
    IF rows = <<>> THEN <<>>
    ELSE LET init == DropDuplicatesSubset(SubSeq(rows, 1, Len(rows) - 1), subset)
             last == rows[Len(rows)]
         IN  IF \E i \in 1..Len(init) : Restrict(init[i], subset) = Restrict(last, subset)
             THEN init
             ELSE Append(init, last)

\* pd.concat([download, df]).drop_duplicates(subset=["player_id", "source_url"]),
\* uploaded as boxscores_<year>.parquet; download is None when there is no file
gcloud_upload_helper(bucket, df, year) ==
    LET both == IF year \in DOMAIN bucket THEN concat(<<bucket[year], df>>) ELSE df
        boxscores_df == DataFrame(both.columns,
                            DropDuplicatesSubset(both.rows, {"player_id", "source_url"}))
    IN  (year :> boxscores_df) @@ bucket

RECURSIVE upload_seasons(_, _, _)
upload_seasons(bucket, df, years) ==
    IF years = <<>> THEN bucket
    ELSE upload_seasons(
            gcloud_upload_helper(bucket,
                DataFrame(df.columns,
                    SelectIdx(df.rows, {i \in 1..Len(df.rows) : df.rows[i].season = Head(years)})),
                Head(years)),
            df, Tail(years))

\* cloud_ok: whether the storage calls succeed; a failing call raises after the
\* seasons before it were uploaded (here: before any)
save_to_gcloud(bucket, df, cloud_ok) ==
    IF empty(df) THEN [raised |-> "", bucket |-> bucket]
    ELSE IF ~cloud_ok THEN [raised |-> "CloudError", bucket |-> bucket]
    ELSE [raised |-> "", bucket |-> upload_seasons(bucket, df, unique(df.rows, "season"))]

----------------------------------------------------------------------------
(* _process_and_upload_data: the try block and its two except clauses      *)

\* what the call does: raises (raised # ""), or returns None (returned = "None")
\* or a table (returned = "DataFrame", the table in df); frames keeps the
\* intermediate tables, bucket is the storage after the call
ProcessResult(raised, returned, df, frames, bucket) ==
    [raised |-> raised, returned |-> returned, df |-> df, frames |-> frames,
     bucket |-> bucket]

\* ValueError alone, without the classes derived from it
BuiltinValueErrors == {"ValueError"}

\* the exceptions that are ValueError or a subclass of it
ValueErrors == {"ValueError", "ValidationError"}

process_and_upload_data(slf, bucket, dfs_by_cat, current_date, is_cache, cloud_ok, order) ==
    Bind([f \in {process_frames(dfs_by_cat, current_date, order)} |->
    IF f.stage \in {"no_offense", "nothing_to_merge"}
    THEN ProcessResult("", IF is_cache THEN "DataFrame" ELSE "None", EmptyDataFrame, f, bucket)
    ELSE
    Bind([v \in {pydantic_convert_and_validate(f.resolved)} |->
    Bind([s \in {IF slf.gcloud_save THEN save_to_gcloud(bucket, v.df, cloud_ok)
                 ELSE [raised |-> "", bucket |-> bucket]} |->
    Bind([e \in {IF f.raised # "" THEN f.raised
                 ELSE IF v.raised # "" THEN v.raised
                 ELSE s.raised} |->
    CASE e = "" ->
            ProcessResult("", "DataFrame", v.df, f, s.bucket)
      [] e \in ValueErrors ->                             \* except ValueError: raise
            ProcessResult(e, "", EmptyDataFrame, f, bucket)
      [] is_cache ->                                      \* except Exception, cache
            ProcessResult("", "DataFrame", EmptyDataFrame, f, bucket)
      [] OTHER ->                                         \* except Exception: raise
            ProcessResult(e, "", EmptyDataFrame, f, bucket)])])])])


----------------------------------------------------------------------------
(* The processing of one batch: a collector that scraped one game, then a  *)
(* call of _process_and_upload_data on what the game left in the           *)
(* accumulators, or on lists of tables that have no row.                   *)

\* the most commented-out tables a page is given
MaxCommented == 2

GameDay == Calendar[3]

GameUrl(d, n) ==
    "https://www.pro-football-reference.com/boxscores/"
        \o ToString(d.year) \o Pad2(d.month) \o Pad2(d.day) \o "0" \o n \o ".htm"

\* the attributes run() has set when it starts on a game
Collector(d, week, n, gcloud_save) ==
    [str_date |-> StrDate(d), week |-> week, url |-> GameUrl(d, n),
     games_processed |-> 0, gcloud_save |-> gcloud_save]

\* the ways the scoring table of a page is written
ScoringKinds ==
    {<<"absent", "MIN", <<"Greg", "Joseph">> >>, <<"no_fg", "MIN", <<"Greg", "Joseph">> >>}
    \cup {<<"fg", t, n>> : t \in {"MIN", "Vikings"},
                           n \in {<<"Greg", "Joseph">>, <<"G.", "Joseph">>}}

\* the commented-out tables of a page, and how the kicker's snap row is written
CommentedKinds ==
    {<<c, p>> \in (SUBSET CommentedIds) \X {"K", "P"} :
        /\ Cardinality(c) <= MaxCommented
        /\ p = "P" => "home_snap_counts" \in c}

ProcessPages ==
    {Page(s[1], s[2], s[3], c[1], c[2]) : s \in ScoringKinds, c \in CommentedKinds}

NoOutcome == ProcessResult("", "", EmptyDataFrame,
                           Frames("", "", EmptyDataFrame, EmptyDataFrame), <<>>)
NoBuilt == BuilderResult(Returned(EmptyDataFrame), <<>>)
NoCall == <<>>

InitProcess ==
    /\ page \in ProcessPages \cup {[commented |-> <<>>]}
    /\ \E reachable \in BOOLEAN, gcloud_save \in BOOLEAN :
         \E g \in {scrape_game(Collector(GameDay, "1", "min", gcloud_save),
                                NoTables, page, reachable)} :
             /\ self = g.self
             \* the lists the game left, or as many tables without a row
             /\ accs \in {g.accs,
                           [c \in DOMAIN g.accs |->
                               [i \in 1..Len(g.accs[c]) |-> EmptyDataFrame]]}
    /\ built = NoBuilt
    /\ call = NoCall
    /\ outcome = NoOutcome
    /\ pc = "process"
    /\ dates = <<GameDay>>
    /\ di = 1
    /\ date = GameDay
    /\ games = 0
    /\ cloud = <<>>

\* one call _process_and_upload_data(*accs, current_date, is_cache)
Process ==
    /\ pc = "process"
    /\ \E is_cache \in BOOLEAN, cloud_ok \in BOOLEAN :
         \E r \in {process_and_upload_data(self, cloud, accs, date, is_cache, cloud_ok,
                                            Categories)} :
             /\ call' = [current_date |-> date, is_cache |-> is_cache, cloud_ok |-> cloud_ok]
             /\ outcome' = r
             /\ cloud' = r.bucket
    /\ pc' = "processed"
    /\ UNCHANGED <<self, page, built, accs, dates, di, date, games>>

SpecProcess == InitProcess /\ [][Process]_vars


----------------------------------------------------------------------------
(* Properties of the join chain (TableMerger)                              *)

\* the call went through the outer-join chain
Merged == pc = "processed" /\ outcome.frames.stage \in {"reorder", "position", "duplicates", "resolved"}

\* the tables the call merged
MergedTables == dfs_to_merge(accs, Categories)

\* the columns of other tables than t in the merged table: neither a merge key
\* nor a column of t, under its own name or suffixed
ForeignTo(t, r) ==
    {c \in DOMAIN r :
        /\ c \notin SeqToSet(MergeKey)
        /\ c \notin t.columns
        /\ \A d \in t.columns : c # d \o "_x" /\ c # d \o "_y"}

\* the row of table i is of a player no other merged table has a row of
OnlyIn(i, row) ==
    \A j \in 1..Len(MergedTables) : j # i =>
        \A k \in 1..Len(MergedTables[j].rows) :
            MergedTables[j].rows[k].player_id # row.player_id

\* C1: every merge key (player_id, player, team, date, week, home_team,
\* away_team, home_away) of a row of a non-empty category table is the key of
\* a row of the table the join chain produces, and the row of a player who is
\* in one category only is there with nulls in the columns of all the others.
C1_MergePreservesKeys ==
    Merged =>
        \A i \in 1..Len(MergedTables) : \A k \in 1..Len(MergedTables[i].rows) :
            LET row == MergedTables[i].rows[k]
                hits == {m \in 1..Len(outcome.frames.merged.rows) :
                            Restrict(outcome.frames.merged.rows[m], SeqToSet(MergeKey))
                                = Restrict(row, SeqToSet(MergeKey))}
            IN  /\ hits # {}
                /\ OnlyIn(i, row) =>
                     \A m \in hits :
                        ForeignTo(MergedTables[i], outcome.frames.merged.rows[m]) = {}

\* a defender who is in the defense table only came through a chain of at
\* least three tables, next to players with values in other tables' columns
C1_Witness ==
    /\ Merged
    /\ Len(MergedTables) >= 3
    /\ \E m \in 1..Len(outcome.frames.merged.rows) :
         LET r == outcome.frames.merged.rows[m]
         IN  /\ r.player_id = "SmitHa00"
             /\ "defensive_sacks" \in DOMAIN r
             /\ "passing_yards" \notin DOMAIN r
             /\ "passing_yards" \in outcome.frames.merged.columns
    /\ \A i \in 1..Len(MergedTables) :
         (\E k \in 1..Len(MergedTables[i].rows) :
             MergedTables[i].rows[k].player_id = "SmitHa00")
         => MergedTables[i].columns \cap {"passing_yards", "kicking_num_field_goals_made"} = {}
    /\ Cardinality({i \in 1..Len(MergedTables) :
            \E k \in 1..Len(MergedTables[i].rows) :
                MergedTables[i].rows[k].player_id = "SmitHa00"}) = 1


----------------------------------------------------------------------------
(* Properties of the duplicate resolution (DuplicateResolver)              *)

\* the call went through the duplicate resolution
Resolved == pc = "processed" /\ outcome.frames.stage = "resolved"

ResolvedRows == outcome.frames.resolved.rows

\* C2: after the duplicate-resolution step the record set holds exactly one
\* record per (player_id, date) pair, whatever the category tables were (the
\* same player's rows may differ in player name, team label or source_url).
C2_OnePerPlayerDate ==
    Resolved =>
        \A i, j \in 1..Len(ResolvedRows) :
            Restrict(ResolvedRows[i], {"player_id", "date"})
                = Restrict(ResolvedRows[j], {"player_id", "date"})
            => i = j

\* the order of the categories with the snap counts merged before the field goals
SnapsFirst ==
    [i \in 1..Len(Categories) |->
        IF Categories[i] = "fg_dfs" THEN "snap_count_dfs"
        ELSE IF Categories[i] = "snap_count_dfs" THEN "fg_dfs"
        ELSE Categories[i]]

\* C3: merging the categories in any order yields the same final row set
\* (ignoring row order), with the same resolved position for every player;
\* stated for the code's order against the order SnapsFirst.
C3_OrderIndependent ==
    Resolved =>
        LET other == process_frames(accs, call.current_date, SnapsFirst)
        IN  /\ other.stage = "resolved"
            /\ SeqToSet(other.resolved.rows) = SeqToSet(ResolvedRows)

\* only the offense table of the batch has rows
OffenseOnly ==
    /\ accs.offensive_dfs # <<>>
    /\ \A c \in SeqToSet(Categories) \ {"offensive_dfs"} :
         \A i \in 1..Len(accs[c]) : empty(accs[c][i])

OffensePlayers ==
    UNION {{accs.offensive_dfs[i].rows[k].player_id :
                k \in 1..Len(accs.offensive_dfs[i].rows)} :
            i \in 1..Len(accs.offensive_dfs)}

\* C4: a batch that has only an offense table is processed without error and
\* gives one record per offense player, its kicking_* fields null and its
\* offense fields populated.
C4_OffenseOnlyProcessed ==
    (pc = "processed" /\ OffenseOnly /\ call.cloud_ok) =>
        /\ outcome.raised = ""
        /\ outcome.returned = "DataFrame"
        /\ {outcome.df.rows[i].player_id : i \in 1..Len(outcome.df.rows)} = OffensePlayers
        /\ Len(outcome.df.rows) = Cardinality(OffensePlayers)
        /\ \A i \in 1..Len(outcome.df.rows) :
             /\ "kicking_num_field_goals_made" \notin DOMAIN outcome.df.rows[i]
             /\ "kicking_field_goals_made" \notin DOMAIN outcome.df.rows[i]
             /\ "passing_yards" \in DOMAIN outcome.df.rows[i]

\* C5: the only exception _process_and_upload_data lets out is a schema
\* validation failure; a missing or empty category table, a row no other
\* category matches and an input without rows never make it raise.
C5_OnlyValidationRaises ==
    (pc = "processed" /\ call.cloud_ok) => outcome.raised \in {"", "ValidationError"}


\* the rows of the tables of category c in the batch
RowsOf(c) == FlattenSeq([i \in 1..Len(accs[c]) |-> accs[c][i].rows])

\* a field-goal row and a kicking/punting row of the same player, date, week and team
KickAndPunt(f, p) ==
    /\ Restrict(f, {"player_id", "date", "week", "team"})
         = Restrict(p, {"player_id", "date", "week", "team"})
    /\ "kicking_num_field_goals_made" \in DOMAIN f
    /\ "punting_num_punts" \in DOMAIN p

\* C7: two source rows with identical (player_id, date, week) and the same
\* team, one supplying kicking stats and the other punting stats, collapse to
\* exactly one row after the duplicate resolution, and that row has both the
\* kicking and the punting stats.
C7_KickAndPuntCollapse ==
    Resolved =>
        \A f \in SeqToSet(RowsOf("fg_dfs")), p \in SeqToSet(RowsOf("punt_kick_dfs")) :
            KickAndPunt(f, p) =>
                LET hits == {i \in 1..Len(ResolvedRows) :
                                Restrict(ResolvedRows[i], {"player_id", "date", "week"})
                                    = Restrict(f, {"player_id", "date", "week"})}
                IN  /\ Cardinality(hits) = 1
                    /\ \A i \in hits :
                         {"kicking_num_field_goals_made", "punting_num_punts"}
                            \subseteq DOMAIN ResolvedRows[i]

\* C8: the duplicate resolution is idempotent: applied to its own output it
\* changes neither the rows nor any value.
C8_ResolveIdempotent ==
    Resolved => resolve_duplicates(outcome.frames.resolved) = outcome.frames.resolved

\* a resolution that combined two rows of one player (the field-goal row
\* under the team's nickname, the other rows under its abbreviation)
C8_Witness ==
    /\ Resolved
    /\ Len(ResolvedRows) < Len(outcome.frames.merged.rows)
    /\ \E i \in 1..Len(ResolvedRows) :
         /\ ResolvedRows[i].player_id = "JoseGr00"
         /\ {"kicking_num_field_goals_made", "offensive_snaps"} \subseteq DOMAIN ResolvedRows[i]
    /\ resolve_duplicates(outcome.frames.resolved) = outcome.frames.resolved


----------------------------------------------------------------------------
(* The table builders on pages whose identity cells are written in every   *)
(* way a cell can be: _extract_ids on a raw table, then the three builders *)
(* in the order run() calls them.                                          *)

JosephWords == <<"Greg", "Joseph", "30", "yard", "field", "goal">>

\* the ways the identity cell of a row is written
IdCells ==
    { JosephCell,                                                \* /players/J/JoseGr00.htm
      Link("Greg Joseph",
           <<"https:", "/", "/", "www", ".", "pro-football-reference", ".", "com">>
               \o PlayerHref("J", <<"JoseGr00">>)),              \* the absolute URL
      Link("Greg Joseph", <<"/", "players", "/", "J", "/", "JoseGr00">>),  \* no extension
      Link("Amon-Ra St. Brown", PlayerHref("S", <<"St", ".", "BrAm00">>)), \* a dotted name
      Link("Greg Joseph", <<"/", "players", "/", "J", "/">>),    \* empty last segment
      Link("Greg Joseph", <<>>),                                 \* href=""
      Cell("Player"),                                            \* no link
      [value |-> "Greg Joseph"] }                                \* not a pair

\* the Detail cell of a scoring row written as the identity cell a is
DetailCell(a) ==
    IF ~IsTuple(a) THEN [value |-> JosephWords]
    ELSE IF "href" \in DOMAIN a THEN Link(JosephWords, a.href)
    ELSE Cell(JosephWords)

\* a page with the identity cells a and b among well-formed rows
BuildPage(a, b) ==
    [player_offense |-> << OffenseCells(MayfieldCell, "TB"), OffenseCells(a, "TB"),
                           OffenseCells(CousinsCell, "MIN"), OffenseCells(b, "MIN") >>,
     scoring |-> RawTable(<< [Quarter |-> Cell("1"), Tm |-> Cell("MIN"), Detail |-> DetailCell(a)],
                             [Quarter |-> Cell(""), Tm |-> Cell("MIN"), Detail |-> DetailCell(b)] >>),
     commented |-> [kicking |-> RawTable(<< [Player |-> a, Tm |-> Cell("MIN"), Pnt |-> Cell("4")],
                                            [Player |-> b, Tm |-> Cell("MIN"), Pnt |-> Cell("2")] >>)]]

InitBuild ==
    /\ \E a \in IdCells, b \in IdCells : page = BuildPage(a, b)
    /\ self = Collector(GameDay, "1", "min", FALSE)
    /\ built = NoBuilt
    /\ accs = NoTables
    /\ call = NoCall
    /\ outcome = NoOutcome
    /\ pc = "start"
    /\ dates = <<GameDay>>
    /\ di = 1
    /\ date = GameDay
    /\ games = 0
    /\ cloud = <<>>

Unbuilt == UNCHANGED <<page, accs, call, outcome, dates, di, date, games, cloud>>

\* self._extract_ids(table, "Player") on the raw kicking table
ExtractIds ==
    /\ pc = "start"
    /\ built' = BuilderResult(Returned(extract_ids(page.commented.kicking, "Player")), self)
    /\ pc' = "extracted"
    /\ UNCHANGED self
    /\ Unbuilt

FetchOffensive ==
    /\ pc = "start"
    /\ built' = fetch_offensive_boxscore(self, page)
    /\ self' = built'.self
    /\ pc' = "offense"
    /\ Unbuilt

FetchFg ==
    /\ pc = "offense"
    /\ built.raised = ""
    /\ built' = fetch_fg_boxscore(self)
    /\ self' = built'.self
    /\ pc' = "fg"
    /\ Unbuilt

FetchCommented ==
    /\ pc = "fg"
    /\ built.raised = ""
    /\ built' = fetch_commented_table(fetch_commented_tables(self, page), "kicking", "Player",
                                      PUNT_KICK_RENAMING_DICT)
    /\ self' = built'.self
    /\ pc' = "commented"
    /\ Unbuilt

\* table.rename(columns=renaming_dict) on the headers of a table, then on the
\* headers it returned: the headers are a key of the dictionary, and one of its
\* values or a header it does not know
RenameColumns ==
    /\ pc \in {"start", "renamed"}
    /\ IF pc = "start"
       THEN \E d \in {OFFENSIVE_RENAMING_DICT, FG_RENAMING_DICT, PLAYER_DEFENSE_RENAMING_DICT,
                      PUNT_KICK_RETURNS_RENAMING_DICT, PUNT_KICK_RENAMING_DICT,
                      PASSING_ADVANCED_RENAMING_DICT, RECEIVING_ADVANCED_RENAMING_DICT,
                      RUSHING_ADVANCED_RENAMING_DICT, DEFENSE_ADVANCED_RENAMING_DICT,
                      SNAP_COUNT_RENAMING_DICT} :
            \E raw \in (DOMAIN d) \X ({d[k] : k \in DOMAIN d} \cup {"Unnamed: 0"}) :
               /\ call' = [renaming_dict |-> d, raw |-> raw,
                           columns |-> [i \in 1..2 |-> RenameHeader(d, raw[i])]]
               /\ pc' = "renamed"
       ELSE /\ call' = [call EXCEPT !.columns =
                            [i \in 1..2 |-> RenameHeader(call.renaming_dict, call.columns[i])]]
            /\ pc' = "renamed_again"
    /\ UNCHANGED <<self, page, built, accs, outcome, dates, di, date, games, cloud>>

NextBuild == ExtractIds \/ FetchOffensive \/ FetchFg \/ FetchCommented \/ RenameColumns

SpecBuild == InitBuild /\ [][NextBuild]_vars


----------------------------------------------------------------------------
(* Properties of the identity extraction                                   *)

\* the part of a hyperlink after its last "/"
AfterLastSlash(h) ==
    LET F[i \in 0..Len(h)] ==
            IF i = 0 THEN <<>>
            ELSE IF h[i] = "/" THEN <<>> ELSE Append(F[i - 1], h[i])
    IN  F[Len(h)]

\* the hyperlink has the form .../X/Name123.ext: a path whose last segment is
\* one name, one dot and one extension
NameDotExt(h) ==
    /\ \E i \in 1..Len(h) : h[i] = "/"
    /\ Len(AfterLastSlash(h)) = 3
    /\ AfterLastSlash(h)[2] = "."
    /\ AfterLastSlash(h)[1] # "."
    /\ AfterLastSlash(h)[3] # "."

Built == pc \in {"offense", "fg", "commented"} /\ built.raised = ""

\* C10: every row of every table a builder produces has a non-null,
\* extractable player_id; a row whose identity cell holds no hyperlink, an
\* empty one or one with an empty last path segment is left out of the table.
C10_BuiltRowsHaveId ==
    Built =>
        \A i \in 1..Len(built.df.rows) :
            /\ "player_id" \in DOMAIN built.df.rows[i]
            /\ built.df.rows[i].player_id # ""


----------------------------------------------------------------------------
(* run(): the loop over self.dates, the games of each day, the cache       *)
(* flushes and the final processing call.                                  *)

\* the Week cell of the season's schedule for the games of a day
WeekOf(d) ==
    CASE d.month = 1 -> "18"
      [] d.month = 2 -> "SuperBowl"
      [] d.month = 9 /\ d.day = 10 -> "1"
      [] OTHER -> "2"

\* a full page: every player of the offense and scoring tables has a snap row
GoodPage ==
    Page("fg", "MIN", <<"Greg", "Joseph">>, {"home_snap_counts", "vis_snap_counts"}, "K")

\* what a game's page can be, and whether its second fetch succeeds; the
\* last page is of a game played the other way round (its offense table lists
\* MIN first)
RunPages ==
    { <<GoodPage, TRUE>>, <<GoodPage, FALSE>>,
      <<Page("absent", "MIN", <<"Greg", "Joseph">>, {"home_snap_counts"}, "K"), TRUE>>,
      <<[GoodPage EXCEPT !.player_offense = <<@[2], @[1]>>], TRUE>> }

NoDate == [unbound |-> TRUE]

\* the storage an earlier pull of the game of 2023-09-10 left: the file of the
\* 2023 season with one row of the game, its passing yards not yet final
EarlierPull ==
    2023 :> DataFrame(ModelFields,
                << [player |-> "Kirk Cousins", player_id |-> "CousKi00", position |-> "QB",
                    team |-> "MIN", date |-> Calendar[3], week |-> 1, season |-> 2023,
                    home_away |-> "H", home_team |-> "MIN", away_team |-> "TB",
                    source_url |-> GameUrl(Calendar[3], "min"),
                    passing_yards |-> [num |-> 250, den |-> 1]] >>)

\* __init__(start_date, end_date, gcloud_save, caching, cache_frequency)
Init ==
    /\ \E s \in 1..Len(Calendar), e \in 1..Len(Calendar) :
         /\ s <= e                                        \* assert len(self.dates) > 0
         /\ dates = SubSeq(Calendar, s, e)
    /\ \E gcloud_save \in BOOLEAN, caching \in BOOLEAN, cache_frequency \in {1, 2} :
         /\ caching => gcloud_save
         /\ cache_frequency = 2 => caching
         /\ self = [gcloud_save |-> gcloud_save, caching |-> caching,
                    cache_frequency |-> cache_frequency, games_processed |-> 0]
    /\ page = [commented |-> <<>>]
    /\ built = NoBuilt
    /\ accs = NoTables
    /\ call = NoCall
    /\ outcome = NoOutcome
    /\ pc = "dates"
    /\ di = 0
    /\ date = NoDate
    /\ games = 0
    /\ cloud \in {<<>>, EarlierPull}

OffSeason(d) == d.month \in {3, 4, 5, 6, 7, 8}

\* if date.month in [3, 4, 5, 6, 7, 8]: continue
SkipDate ==
    /\ pc = "dates" /\ di < Len(dates)
    /\ OffSeason(dates[di + 1])
    /\ di' = di + 1
    /\ date' = dates[di + 1]
    /\ UNCHANGED <<self, page, built, accs, call, outcome, pc, dates, games, cloud>>

\* _get_boxscore_urls_for_date raises: the day is logged and left
LookupFails ==
    /\ pc = "dates" /\ di < Len(dates)
    /\ ~OffSeason(dates[di + 1])
    /\ di' = di + 1
    /\ date' = dates[di + 1]
    /\ self' = With(self, "str_date", StrDate(dates[di + 1]))
    /\ UNCHANGED <<page, built, accs, call, outcome, pc, dates, games, cloud>>

\* _get_boxscore_urls_for_date returns the games of the day (none or one)
OpenDate ==
    /\ pc = "dates" /\ di < Len(dates)
    /\ ~OffSeason(dates[di + 1])
    /\ di' = di + 1
    /\ date' = dates[di + 1]
    /\ self' = With(self, "str_date", StrDate(dates[di + 1]))
    /\ \E n \in {0, 1} :
         /\ games' = n
         /\ pc' = IF n = 0 THEN "dates" ELSE "games"
    /\ UNCHANGED <<page, built, accs, call, outcome, dates, cloud>>

\* a flush after every processed game, whatever cache_frequency is
cache_always(slf) == slf.caching /\ slf.gcloud_save

\* the condition of the intermittent caching
cache_due(slf) ==
    /\ slf.caching /\ slf.gcloud_save
    /\ slf.games_processed % slf.cache_frequency = 0

\* one turn of the inner loop: the game is scraped into the accumulators; when
\* it was processed to the end and a flush is due, the batch so far is
\* processed as a cache; whatever is raised in the block is logged
ScrapeGame ==
    /\ pc = "games" /\ games > 0
    /\ \E pg \in RunPages, cloud_ok \in BOOLEAN :
         \E g \in {scrape_game(With(With(self, "url", GameUrl(date, "min")),
                                     "week", WeekOf(date)),
                                accs, pg[1], pg[2])} :
             /\ page' = pg[1]
             /\ self' = g.self
             /\ accs' = g.accs
             /\ IF g.raised = "" /\ cache_due(g.self)
                THEN \E r \in {process_and_upload_data(g.self, cloud, g.accs, date, TRUE,
                                                       cloud_ok, Categories)} :
                     /\ call' = [current_date |-> date, is_cache |-> TRUE,
                                 cloud_ok |-> cloud_ok]
                     /\ outcome' = r
                     /\ cloud' = r.bucket
                ELSE /\ cloud_ok
                     /\ UNCHANGED <<call, outcome, cloud>>
    /\ games' = games - 1
    /\ pc' = IF games' = 0 THEN "dates" ELSE "games"
    /\ UNCHANGED <<built, dates, di, date>>

\* after the loop: self.full_boxscore = self._process_and_upload_data(..., date,
\* is_cache=False); run() returns it, or raises what the call raises
Finish ==
    /\ pc = "dates" /\ di = Len(dates)
    /\ \E cloud_ok \in BOOLEAN :
         \E r \in {process_and_upload_data(self, cloud, accs, date, FALSE, cloud_ok,
                                            Categories)} :
             /\ self.gcloud_save \/ cloud_ok
             /\ call' = [current_date |-> date, is_cache |-> FALSE, cloud_ok |-> cloud_ok]
             /\ outcome' = r
             /\ cloud' = r.bucket
             /\ pc' = IF r.raised = "" THEN "done" ELSE "raised"
    /\ UNCHANGED <<self, page, built, accs, dates, di, date, games>>

Next == SkipDate \/ LookupFails \/ OpenDate \/ ScrapeGame \/ Finish

Spec == Init /\ [][Next]_vars

\* C6: for each record run() returns, season equals date.year if the record's
\* own date.month > 7 and date.year - 1 otherwise, for any date range (ranges
\* that span two seasons or end on a day without a processed game included).
C6_SeasonFromRecordDate ==
    (pc = "done" /\ outcome.returned = "DataFrame") =>
        \A i \in 1..Len(outcome.df.rows) :
            outcome.df.rows[i].season = SeasonOf(outcome.df.rows[i].date)

----------------------------------------------------------------------------
(* The season rules on their own: utilities.calculate_nfl_season and the   *)
(* batch tagging of _process_and_upload_data, applied to every day of a    *)
(* bounded set of dates.                                                   *)

\* the days the rules are applied to
SeasonDates == [year : {2022, 2023}, month : 1..12, day : {1, 15, 28}]

\* a date argument: a "YYYY-MM-DD" string or a datetime
DateArguments ==
    {[str |-> StrDate(d)] : d \in SeasonDates} \cup {[dt |-> d] : d \in SeasonDates}

\* dt.strptime(date, "%Y-%m-%d") on the strings of DateArguments
strptime(s) == CHOOSE d \in SeasonDates : StrDate(d) = s

\* calculate_nfl_season: the value returned, an int or the datetime itself
calculate_nfl_season(arg) ==
    Bind([d \in {IF "str" \in DOMAIN arg THEN strptime(arg.str) ELSE arg.dt} |->
        IF d.month < 8 THEN [int |-> d.year - 1] ELSE [dt |-> d]])

\* a merged table of two players, before the tagging
UntaggedTable ==
    DataFrame({"player", "player_id", "date"},
              << [player |-> "Kirk Cousins", player_id |-> "CousKi00", date |-> "2023-09-10"],
                 [player |-> "Baker Mayfield", player_id |-> "MayfBa00", date |-> "2023-09-10"] >>)

InitSeason ==
    /\ call \in DateArguments
    /\ pc = "season"
    /\ outcome = NoOutcome
    /\ self = <<>> /\ page = [commented |-> <<>>] /\ built = NoBuilt /\ accs = NoTables
    /\ dates = <<>> /\ di = 0 /\ date = NoDate /\ games = 0 /\ cloud = <<>>

\* season = calculate_nfl_season(date)
CalculateSeason ==
    /\ pc = "season"
    /\ outcome' = calculate_nfl_season(call)
    /\ pc' = "calculated"
    /\ UNCHANGED <<self, page, built, accs, call, dates, di, date, games, cloud>>

\* merged["season"] = ... with current_date a datetime
TagSeason ==
    /\ pc = "season" /\ "dt" \in DOMAIN call
    /\ outcome' = tag_season(UntaggedTable, call.dt)
    /\ pc' = "tagged"
    /\ UNCHANGED <<self, page, built, accs, call, dates, di, date, games, cloud>>

NextSeason == CalculateSeason \/ TagSeason

SpecSeason == InitSeason /\ [][NextSeason]_vars

\* C11: the season the batch tagging writes into every row is date.year when
\* date.month > 7 and date.year - 1 otherwise, so it equals date.year if and
\* only if date.month > 7.
C11_TaggedSeason ==
    pc = "tagged" =>
        /\ Len(outcome.rows) = Len(UntaggedTable.rows)
        /\ \A i \in 1..Len(outcome.rows) :
            /\ outcome.rows[i].season =
                    IF call.dt.month > 7 THEN call.dt.year ELSE call.dt.year - 1
            /\ (outcome.rows[i].season = call.dt.year) <=> (call.dt.month > 7)

\* a table tagged with an August date
C11_Witness ==
    /\ pc = "tagged" /\ call.dt.month = 8
    /\ \E i \in 1..Len(outcome.rows) : outcome.rows[i].season = call.dt.year

\* C12: calculate_nfl_season returns the integer date.year if date.month > 7,
\* else date.year - 1, for a date given as a string or as a datetime.
C12_CalculateSeason ==
    pc = "calculated" =>
        LET d == IF "str" \in DOMAIN call THEN strptime(call.str) ELSE call.dt
        IN  outcome = [int |-> IF d.month > 7 THEN d.year ELSE d.year - 1]


----------------------------------------------------------------------------
(* Properties of the validation gate (SchemaValidator)                     *)

\* the call reached the validation: the table handed to
\* pydantic_convert_and_validate is frames.resolved
Validated == pc = "processed" /\ outcome.frames.stage = "resolved"

\* C13: when a field of the resolved table cannot be coerced to its declared
\* type, _process_and_upload_data raises the validation error to its caller
\* whether is_cache is False or True, returning and uploading nothing; when every
\* field validates, every resolved row is returned and no null field is filled in.
C13_ValidationFailurePropagates ==
    Validated =>
        IF pydantic_convert_and_validate(outcome.frames.resolved).raised # ""
        THEN /\ outcome.raised = "ValidationError"
             /\ outcome.returned = ""
             /\ cloud = <<>>
        ELSE /\ outcome.raised \notin ValueErrors
             /\ (outcome.raised = "" /\ outcome.df.rows # <<>>) =>
                    /\ outcome.returned = "DataFrame"
                    /\ Len(outcome.df.rows) = Len(outcome.frames.resolved.rows)
                    /\ \A i \in 1..Len(outcome.df.rows) :
                        DOMAIN outcome.df.rows[i] \subseteq DOMAIN outcome.frames.resolved.rows[i]

\* a cache call whose resolved table has a row that fails the validation
C13_Witness ==
    /\ Validated /\ call.is_cache
    /\ outcome.frames.resolved.rows # <<>>
    /\ pydantic_convert_and_validate(outcome.frames.resolved).raised # ""
    /\ outcome.raised = "ValidationError"


----------------------------------------------------------------------------
(* NFLBoxscore.model_validate on its own: one row of a table, with one of  *)
(* its text cells written in each of a set of ways.                        *)

\* a row of the resolved table that validates
ValidRow ==
    [player |-> "Kirk Cousins", player_id |-> "CousKi00", position |-> "QB",
     team |-> "MIN", date |-> "2023-09-10", week |-> "1", season |-> 2023,
     home_away |-> "H", home_team |-> "MIN", away_team |-> "TB",
     source_url |-> GameUrl(GameDay, "min"), passing_completions |-> "21",
     passing_first_down_pct |-> "12.5%", offensive_snaps_percentage |-> "100%"]

\* the cells that are rewritten
RewrittenFields ==
    {"player", "position", "team", "date", "week", "source_url",
     "passing_completions", "passing_first_down_pct", "offensive_snaps_percentage"}

\* the texts a cell is rewritten to
CellTexts ==
    {"45.2%", "12.5%", "100%", "0%", "%", "n/a%", "", " ", "7", "QB", "2023-09-10",
     "SuperBowl", "Kirk Cousins"}

InitValidate ==
    /\ call \in [field : RewrittenFields, text : CellTexts]
    /\ pc = "validate"
    /\ outcome = NoOutcome
    /\ self = <<>> /\ page = [commented |-> <<>>] /\ built = NoBuilt /\ accs = NoTables
    /\ dates = <<>> /\ di = 0 /\ date = NoDate /\ games = 0 /\ cloud = <<>>

\* NFLBoxscore.model_validate(row).model_dump()
Validate ==
    /\ pc = "validate"
    /\ outcome' = model_validate(With(ValidRow, call.field, call.text), DOMAIN ValidRow)
    /\ pc' = "validated"
    /\ UNCHANGED <<self, page, built, accs, call, dates, di, date, games, cloud>>

SpecValidate == InitValidate /\ [][Validate]_vars

\* the fraction a percentage text stands for
Fractions ==
    ("45.2%" :> [num |-> 452, den |-> 1000]) @@ ("12.5%" :> [num |-> 125, den |-> 1000])
    @@ ("100%" :> [num |-> 1, den |-> 1]) @@ ("0%" :> [num |-> 0, den |-> 1])

SameFraction(a, b) == a.num * b.den = b.num * a.den

\* the values type coercion receives for the row that was validated
Preprocessed ==
    before_validators([k \in DOMAIN ValidRow |->
        Typed(k, With(ValidRow, call.field, call.text)[k])])

\* C14: a text ending in "%" whose prefix is a number n is replaced by the float
\* n / 100 under every key before the type coercion, and the validated record
\* holds n / 100 in a float field.
C14_PercentageBecomesFraction ==
    (pc = "validated" /\ call.text \in DOMAIN Fractions) =>
        /\ call.field \in DOMAIN Preprocessed
        /\ "float" \in DOMAIN Preprocessed[call.field]
        /\ SameFraction(Preprocessed[call.field].float, Fractions[call.text])
        /\ call.field \in FloatFields =>
            /\ outcome.raised = ""
            /\ SameFraction(outcome.entry[call.field], Fractions[call.text])

\* "45.2%" validated in a float field that holds no percentage in the valid row
C14_Witness ==
    /\ pc = "validated" /\ call.text = "45.2%" /\ call.field = "passing_completions"
    /\ outcome.raised = ""
    /\ outcome.entry.passing_completions = [num |-> 452, den |-> 1000]


\* C15: a blank text in a field other than position is missing in the validated
\* record (the record exists and holds no value for the field); a blank text
\* in position stays in the record as it is.
C15_BlankBecomesMissing ==
    (pc = "validated" /\ call.text \in BlankTexts) =>
        /\ outcome.raised = ""
        /\ IF call.field = "position"
           THEN outcome.entry.position = call.text
           ELSE call.field \notin DOMAIN outcome.entry


\* the texts that end in "%" and whose prefix float() does not accept
UnparsablePercents == {"%", "n/a%"}

\* C25: a text ending in "%" that cannot be parsed as a number reaches the type
\* coercion as the same text (not as zero, not as a missing value), and the
\* validation of a numeric field that holds it raises.
C25_UnparsablePercentageKept ==
    (pc = "validated" /\ call.text \in UnparsablePercents) =>
        /\ call.field \in DOMAIN Preprocessed
        /\ Preprocessed[call.field] = [str |-> call.text]
        /\ call.field \in FloatFields \cup {"week", "season"} => outcome.raised = "ValidationError"

\* "n/a%" in a float field: the validation raised
C25_Witness ==
    /\ pc = "validated" /\ call.text = "n/a%" /\ call.field = "passing_first_down_pct"
    /\ Preprocessed.passing_first_down_pct = [str |-> "n/a%"]
    /\ outcome.raised = "ValidationError"


----------------------------------------------------------------------------
(* The builders after the offense table: _fetch_fg_boxscore on scoring     *)
(* tables of up to MaxScoring rows, each row one of the plays of           *)
(* ScoringPlays, or on a page without a scoring table; then                *)
(* _fetch_commented_table for any category, on a page without commented    *)
(* tables.                                                                 *)

\* the most rows a scoring table is given
MaxScoring == 3

\* the plays of a scoring table: team, Detail text, the href of the player
\* linked first
ScoringPlays ==
    { <<"MIN", <<"Greg", "Joseph", "30", "yard", "field", "goal">>, JosephCell.href>>,
      <<"MIN", <<"Greg", "Joseph", "45", "yard", "field", "goal">>, JosephCell.href>>,
      <<"TB", <<"Chase", "McLaughlin", "19", "yard", "field", "goal">>,
        PlayerHref("M", <<"McLaCh00">>)>>,
      <<"MIN", <<"Harrison", "Smith", "52", "yard", "blocked", "field", "goal", "return">>,
        SmithCell.href>>,
      <<"TB", <<"Chase", "McLaughlin", "45", "yard", "field", "goal", "return">>,
        PlayerHref("M", <<"McLaCh00">>)>>,
      <<"MIN", <<"Kirk", "Cousins", "1", "yard", "rush">>, CousinsCell.href>> }

\* the page of a game with the given scoring plays
FgPage(plays) ==
    [player_offense |-> << OffenseCells(MayfieldCell, "TB"), OffenseCells(CousinsCell, "MIN") >>,
     scoring |-> RawTable([i \in 1..Len(plays) |->
                    [Quarter |-> Cell("1"), Tm |-> Cell(plays[i][1]),
                     Detail |-> Link(plays[i][2], plays[i][3])]]),
     commented |-> <<>>]

\* the offense table of the page was fetched; the scoring table is next
InitFg ==
    /\ \E n \in 0..MaxScoring : \E plays \in [1..n -> ScoringPlays] :
         \E pg \in {FgPage(plays), Restrict(FgPage(plays), {"player_offense", "commented"})} :
            /\ page = pg
            /\ self = fetch_offensive_boxscore(Collector(GameDay, "1", "min", FALSE), pg).self
    /\ built = NoBuilt
    /\ accs = NoTables
    /\ call = NoCall
    /\ outcome = NoOutcome
    /\ pc = "offense"
    /\ dates = <<GameDay>>
    /\ di = 1
    /\ date = GameDay
    /\ games = 0
    /\ cloud = <<>>

\* self._fetch_commented_tables(self.url), then one _fetch_commented_table call
FetchCategory ==
    /\ pc = "fg"
    /\ built.raised = ""
    /\ \E c \in CommentedIds :
         /\ call' = [table_id |-> c]
         /\ built' = fetch_commented_table(fetch_commented_tables(self, page), c, "Player",
                                           SNAP_COUNT_RENAMING_DICT)
    /\ self' = built'.self
    /\ pc' = "commented"
    /\ UNCHANGED <<page, accs, outcome, dates, di, date, games, cloud>>

SpecFg == InitFg /\ [][FetchFg \/ FetchCategory]_vars

\* the scoring rows of the page that are field-goal makes: the Detail ends in
\* "field goal"
IsMake(r) ==
    /\ Len(r.Detail.text) >= 2
    /\ SubSeq(r.Detail.text, Len(r.Detail.text) - 1, Len(r.Detail.text)) = <<"field", "goal">>

Makes == {i \in 1..Len(page.scoring.rows) : IsMake(page.scoring.rows[i])}

\* the makes of one kicker for one team
MakesOf(r) ==
    {i \in Makes : /\ AfterLastSlash(page.scoring.rows[i].Detail.href)[1] = r.player_id
                   /\ page.scoring.rows[i].Tm.text = r.team}

\* the yards of a make
Yards(i) ==
    CASE page.scoring.rows[i].Detail.text[3] = "19" -> 19
      [] page.scoring.rows[i].Detail.text[3] = "30" -> 30
      [] page.scoring.rows[i].Detail.text[3] = "45" -> 45
      [] page.scoring.rows[i].Detail.text[3] = "52" -> 52

RECURSIVE SumYards(_)
SumYards(I) ==
    IF I = {} THEN 0 ELSE LET i == CHOOSE i \in I : TRUE IN Yards(i) + SumYards(I \ {i})

FgBuilt == pc = "fg" /\ built.raised = ""

\* C16: a scoring row whose Detail contains "field goal return", and a row
\* without "field goal", is in no kicker's count or sum: every row of the
\* field-goal table counts and sums makes only, and the counts add up to the
\* number of makes of the page.
C16_ReturnsExcluded ==
    FgBuilt =>
        /\ \A k \in 1..Len(built.df.rows) :
            /\ MakesOf(built.df.rows[k]) # {}
            /\ built.df.rows[k].kicking_num_field_goals_made
                    = Cardinality(MakesOf(built.df.rows[k]))
            /\ built.df.rows[k].kicking_total_made_field_goals_distance
                    = SumYards(MakesOf(built.df.rows[k]))
        /\ SumSeq([k \in 1..Len(built.df.rows) |->
                        built.df.rows[k].kicking_num_field_goals_made])
                = Cardinality(Makes)

\* a page with a make and a field-goal return by the same player
C16_Witness ==
    /\ FgBuilt
    /\ \E i, j \in 1..Len(page.scoring.rows) :
         /\ IsMake(page.scoring.rows[i])
         /\ Contains(page.scoring.rows[j].Detail.text, <<"field", "goal", "return">>)
         /\ page.scoring.rows[i].Detail.href = page.scoring.rows[j].Detail.href
    /\ Len(built.df.rows) = 1
    /\ built.df.rows[1].kicking_num_field_goals_made = 1


\* the kicker's name in the Detail of a make: the words before the yardage
KickerName(i) ==
    page.scoring.rows[i].Detail.text[1] \o " " \o page.scoring.rows[i].Detail.text[2]

\* make i belongs to the group of row r
InGroup(i, r) ==
    /\ AfterLastSlash(page.scoring.rows[i].Detail.href)[1] = r.player_id
    /\ KickerName(i) = r.player
    /\ page.scoring.rows[i].Tm.text = r.team

\* C17: the field-goal table has exactly one row per distinct (player_id,
\* kicker name, team) among the makes; the row's count is the number of the
\* group's makes, its total distance is their sum (never null) and its average
\* distance is the sum divided by the count.
C17_OneRowPerKickerGroup ==
    FgBuilt =>
        /\ \A i \in Makes : \E k \in 1..Len(built.df.rows) : InGroup(i, built.df.rows[k])
        /\ \A k, l \in 1..Len(built.df.rows) :
            (/\ built.df.rows[k].player_id = built.df.rows[l].player_id
             /\ built.df.rows[k].player = built.df.rows[l].player
             /\ built.df.rows[k].team = built.df.rows[l].team) => k = l
        /\ \A k \in 1..Len(built.df.rows) :
            LET r == built.df.rows[k]
                group == {i \in Makes : InGroup(i, r)}
            IN  /\ group # {}
                /\ r.kicking_num_field_goals_made = Cardinality(group)
                /\ "kicking_total_made_field_goals_distance" \in DOMAIN r
                /\ r.kicking_total_made_field_goals_distance = SumYards(group)
                /\ "kicking_field_goals_made_average_distance" \in DOMAIN r
                /\ SameFraction(r.kicking_field_goals_made_average_distance,
                                [num |-> SumYards(group), den |-> Cardinality(group)])

\* two kickers, one of them with two makes of 30 and 45 yards
C17_Witness ==
    /\ FgBuilt
    /\ Len(built.df.rows) = 2
    /\ \E k \in 1..2 :
         /\ built.df.rows[k].player_id = "JoseGr00"
         /\ built.df.rows[k].kicking_num_field_goals_made = 2
         /\ built.df.rows[k].kicking_total_made_field_goals_distance = 75
         /\ built.df.rows[k].kicking_field_goals_made_average_distance = [num |-> 75, den |-> 2]


----------------------------------------------------------------------------
(* Properties of run()                                                     *)

IsPrefix(s, t) == Len(s) <= Len(t) /\ SubSeq(t, 1, Len(s)) = s

\* C18: the tables accumulated from earlier games stay in the accumulators
\* unchanged whatever a step does; a game that fails (games_processed is not
\* advanced) leaves the loop where it was, so the later games and dates are
\* still attempted; and the final processing call works on the accumulated
\* tables: it does not find them empty, and its joined table holds every
\* player of every accumulated offense table.
C18_FailedGameKeepsEarlier ==
    [][ /\ \A c \in DOMAIN accs : IsPrefix(accs[c], accs'[c])
        /\ (pc = "games" /\ self'.games_processed = self.games_processed) =>
                /\ pc' \in {"games", "dates"}
                /\ di' = di /\ dates' = dates /\ games' = games - 1
        /\ (pc = "dates" /\ pc' \in {"done", "raised"}) =>
                /\ ~call'.is_cache
                /\ (\E i \in 1..Len(accs.offensive_dfs) : accs.offensive_dfs[i].rows # <<>>)
                        => outcome'.frames.stage \notin {"no_offense", "nothing_to_merge"}
                /\ outcome'.frames.stage \in {"reorder", "position", "duplicates", "resolved"}
                        => \A i \in 1..Len(accs.offensive_dfs) :
                             \A k \in 1..Len(accs.offensive_dfs[i].rows) :
                               \E m \in 1..Len(outcome'.frames.merged.rows) :
                                 /\ outcome'.frames.merged.rows[m].player_id
                                        = accs.offensive_dfs[i].rows[k].player_id
                                 /\ outcome'.frames.merged.rows[m].date
                                        = accs.offensive_dfs[i].rows[k].date
      ]_vars

\* run() has ended after a game that was processed to the end and a later game
\* that failed once its offense table was appended; the final call joined the
\* tables of both
C18_Witness ==
    /\ pc \in {"done", "raised"}
    /\ self.games_processed = 1
    /\ Len(accs.offensive_dfs) = 2
    /\ Len(accs.snap_count_dfs) = 2
    /\ accs.snap_count_dfs[1].rows[1].date # accs.offensive_dfs[2].rows[1].date
    /\ outcome.frames.stage \in {"reorder", "position", "duplicates", "resolved"}


\* the collector's attributes a builder is handed on the page
AfterOffense ==
    fetch_offensive_boxscore(Collector(GameDay, "1", "min", FALSE), page).self

\* C19: a builder whose table is absent from the page returns an empty table
\* without raising and leaves home_team, away_team, week, url and the fetched
\* tables as they were; this holds for the commented-out categories and for
\* the scoring table of the field goals.
C19_AbsentTableIsEmpty ==
    /\ (pc = "commented" /\ call.table_id \notin DOMAIN page.commented) =>
            /\ built.raised = ""
            /\ built.df = EmptyDataFrame
            /\ self = fetch_commented_tables(AfterOffense, page)
    /\ (pc = "fg" /\ "scoring" \notin DOMAIN page) =>
            /\ built.raised = ""
            /\ built.df.rows = <<>>
            /\ self = AfterOffense



----------------------------------------------------------------------------
(* Properties of the empty batch (AggregationInputEmpty)                   *)

\* no table of the ten lists has a row
NoRows == \A c \in DOMAIN accs : \A i \in 1..Len(accs[c]) : accs[c][i].rows = <<>>

----------------------------------------------------------------------------
(* Properties of the home and away assignment                              *)

\* the tables the game left in the ten lists
GameTables == UNION {SeqToSet(accs[c]) : c \in DOMAIN accs}

\* the rows of those tables
GameRows == UNION {SeqToSet(t.rows) : t \in GameTables}

\* the k-th distinct team of the offense table, in the order of its rows
OffenseTeam(k) ==
    LET rows == accs.offensive_dfs[1].rows
        first(i) == \A j \in 1..(i - 1) : rows[j].team # rows[i].team
        firsts == {i \in 1..Len(rows) : first(i)}
    IN  rows[CHOOSE i \in firsts : Cardinality({j \in firsts : j <= i}) = k].team

\* C21: in every table built for a game, home_team differs from away_team, every
\* row carries the same home_team and away_team, home_away is "H" exactly when
\* the row's team is home_team and "A" exactly when it is away_team, and
\* home_team is the second, away_team the first distinct team of the offense
\* table.
C21_HomeAwayFromOffense ==
    \A r \in GameRows :
        /\ r.home_team # r.away_team
        /\ r.home_team = OffenseTeam(2)
        /\ r.away_team = OffenseTeam(1)
        /\ "team" \in DOMAIN r =>
                /\ r.home_away = "H" <=> r.team = r.home_team
                /\ r.home_away = "A" <=> r.team = r.away_team



----------------------------------------------------------------------------
(* Properties of the column renaming (ColumnNormalizer)                    *)

\* C22: for each of the renaming dictionaries, a header the dictionary does not
\* hold is left as it is and no header is dropped, and renaming the renamed
\* headers a second time changes none of them.
C22_RenameIdempotent ==
    [][ /\ pc' = "renamed" =>
            /\ Len(call'.columns) = Len(call'.raw)
            /\ \A i \in 1..Len(call'.raw) :
                  call'.raw[i] \notin DOMAIN call'.renaming_dict
                      => call'.columns[i] = call'.raw[i]
        /\ pc' = "renamed_again" => call'.columns = call.columns
      ]_vars

\* headers renamed twice, one of them changed by the first renaming, the other
\* not held by the dictionary
C22_Witness ==
    /\ pc = "renamed_again"
    /\ call.raw[1] \in DOMAIN call.renaming_dict
    /\ call.columns[1] # call.raw[1]
    /\ call.raw[2] \notin DOMAIN call.renaming_dict
    /\ call.columns[2] = call.raw[2]



----------------------------------------------------------------------------
(* Properties of the duplicate resolution (DuplicateResolver)              *)

\* the rows handed to the duplicate resolution
CondensedRows == outcome.frames.condensed.rows

\* the reduced key of a row
ReducedKey(r) == Restrict(r, SeqToSet(key_cols))

\* the rows of the group of key k, in the order they are handed over
GroupOf(k) == {i \in 1..Len(CondensedRows) : ReducedKey(CondensedRows[i]) = k}

\* the first row of the group of k that holds a value in column c
FirstWith(k, c) ==
    CHOOSE i \in GroupOf(k) :
        /\ c \in DOMAIN CondensedRows[i]
        /\ \A j \in GroupOf(k) : j < i => c \notin DOMAIN CondensedRows[j]

\* C23: the duplicate resolution outputs exactly one row for each group of rows
\* that share the reduced key, and in that row every column holds the first
\* non-null value of the column in the group's order (null when the group has
\* none), so a non-null value is lost only to an earlier non-null value of the
\* same group and column.
C23_FirstNonNullPerGroup ==
    Resolved =>
        /\ \A i \in 1..Len(CondensedRows) :
              Cardinality({o \in 1..Len(ResolvedRows) :
                  ReducedKey(ResolvedRows[o]) = ReducedKey(CondensedRows[i])}) = 1
        /\ \A o \in 1..Len(ResolvedRows) :
              /\ GroupOf(ReducedKey(ResolvedRows[o])) # {}
              /\ \A c \in outcome.frames.condensed.columns :
                    IF \E i \in GroupOf(ReducedKey(ResolvedRows[o])) : c \in DOMAIN CondensedRows[i]
                    THEN /\ c \in DOMAIN ResolvedRows[o]
                         /\ ResolvedRows[o][c]
                              = CondensedRows[FirstWith(ReducedKey(ResolvedRows[o]), c)][c]
                    ELSE c \notin DOMAIN ResolvedRows[o]

\* a group of two rows that differ in a column both hold, and of which only the
\* second holds some other column
C23_Witness ==
    /\ Resolved
    /\ \E i, j \in 1..Len(CondensedRows) :
         /\ i < j
         /\ ReducedKey(CondensedRows[i]) = ReducedKey(CondensedRows[j])
         /\ \E c \in DOMAIN CondensedRows[i] \cap DOMAIN CondensedRows[j] :
               CondensedRows[i][c] # CondensedRows[j][c]
         /\ DOMAIN CondensedRows[j] \ DOMAIN CondensedRows[i] # {}



----------------------------------------------------------------------------
(* Properties of the position resolution                                   *)

\* the call got as far as the steps after the outer-join chain and the season
PositionStep ==
    /\ pc = "processed"
    /\ outcome.frames.stage \in {"position", "duplicates", "resolved"}

\* the rows of category c that are joined into the merged row r
JoinedInto(c, r) ==
    {s \in SeqToSet(RowsOf(c)) :
        Restrict(s, SeqToSet(MergeKey)) = Restrict(r, SeqToSet(MergeKey))}

\* C24: the position of a merged row is the snap-count position when that is
\* non-null, otherwise the field-goal table's "K", otherwise null; the step
\* succeeds whichever of the field-goal and snap-count tables are there, and it
\* leaves no position_x or position_y column.
C24_PositionCoalesced ==
    PositionStep =>
        /\ outcome.frames.stage # "position"
        /\ outcome.frames.condensed.columns \cap {"position_x", "position_y"} = {}
        /\ \A i \in 1..Len(CondensedRows) :
              /\ DOMAIN CondensedRows[i] \cap {"position_x", "position_y"} = {}
              /\ IF \E s \in JoinedInto("snap_count_dfs", CondensedRows[i]) : NotNull(s, "position")
                 THEN /\ NotNull(CondensedRows[i], "position")
                      /\ \E s \in JoinedInto("snap_count_dfs", CondensedRows[i]) :
                            /\ NotNull(s, "position")
                            /\ s.position = CondensedRows[i].position
                 ELSE IF JoinedInto("fg_dfs", CondensedRows[i]) # {}
                 THEN /\ NotNull(CondensedRows[i], "position")
                      /\ CondensedRows[i].position = "K"
                 ELSE IsNull(CondensedRows[i], "position")



\* C26: a game that fails partway through its block leaves no table in any of
\* the ten lists: after a step in which the game failed (games_processed did
\* not advance) the lists are what they were before the game.
C26_FailedGameLeavesNothing ==
    [][ (pc = "games" /\ self'.games_processed = self.games_processed) => accs' = accs ]_vars



\* a step of the inner loop in which _process_and_upload_data was called
Flushed == call' # call

----------------------------------------------------------------------------
(* Properties of the storage                                               *)

\* the key the stored rows are deduplicated on
UploadKey(r) == Restrict(r, {"player_id", "source_url"})

C29_UploadOnlyValidated ==
    (pc = "processed" /\ cloud # <<>>) =>
        /\ self.gcloud_save
        /\ call.cloud_ok
        /\ outcome.raised = ""
        /\ outcome.frames.stage = "resolved"
        /\ \A i \in 1..Len(ResolvedRows) :
              model_validate(ResolvedRows[i], outcome.frames.resolved.columns).raised = ""
        /\ \A y \in DOMAIN cloud : \A k \in 1..Len(cloud[y].rows) :
              \E i \in 1..Len(ResolvedRows) :
                  cloud[y].rows[k]
                    = model_validate(ResolvedRows[i], outcome.frames.resolved.columns).entry

\* a call with gcloud_save set whose record set passed the validation and was
\* uploaded
C29_Witness ==
    /\ pc = "processed" /\ self.gcloud_save
    /\ outcome.raised = "" /\ outcome.df.rows # <<>>
    /\ cloud # <<>>
    /\ \E y \in DOMAIN cloud : Len(cloud[y].rows) = Len(outcome.df.rows)



\* C30: every table a game appends to a list carries the game's own
\* source_url, week and date, and the home and away team of the game's own
\* offense table, whatever the games before it were and however they ended.
C30_OwnContext ==
    [][ pc = "games" =>
          \A c \in DOMAIN accs : \A i \in (Len(accs[c]) + 1)..Len(accs'[c]) :
              \A k \in 1..Len(accs'[c][i].rows) :
                  /\ accs'[c][i].rows[k].source_url = GameUrl(date, "min")
                  /\ accs'[c][i].rows[k].week = WeekOf(date)
                  /\ accs'[c][i].rows[k].date = StrDate(date)
                  /\ accs'[c][i].rows[k].away_team = page'.player_offense[1][2].text
                  /\ accs'[c][i].rows[k].home_team = page'.player_offense[2][2].text
      ]_vars

\* three games, the first at MIN, the second failed after its offense table,
\* the third at TB: the lists hold tables of each
C30_Witness ==
    /\ Len(accs.offensive_dfs) = 3
    /\ self.games_processed = 2
    /\ Len(accs.snap_count_dfs) = 4
    /\ accs.snap_count_dfs[1].rows[1].home_team = "MIN"
    /\ accs.snap_count_dfs[3].rows[1].home_team = "TB"
    /\ accs.snap_count_dfs[1].rows[1].source_url # accs.snap_count_dfs[3].rows[1].source_url
    /\ accs.snap_count_dfs[1].rows[1].week # accs.snap_count_dfs[3].rows[1].week

====
